---- MODULE Spec2Model ----
(***************************************************************************)
(* A model of the memoizing cache of cogs/utils/cache.py: the bounded      *)
(* LRUDict, key resolution, the wrapper of a decorated function and its    *)
(* invalidation API.                                                       *)
(*                                                                         *)
(* A Python str that takes part in key resolution is a sequence of         *)
(* one-character strings, so that repr, ":".join and the `in` substring    *)
(* test are computed and not assumed.  An LRUDict is the sequence of its   *)
(* items [k, v] in OrderedDict order: the head is the oldest item (the     *)
(* one next(iter(self)) yields), the last the most recently used.          *)
(***************************************************************************)
EXTENDS Integers, Sequences, FiniteSets, TLC

\* ------------------------------------------------------------- bounds ----

\* The largest max_len a decorator is given (every max_len in 1..MaxLen).
MaxLen == 3

\* The most asynchronous misses in flight at a time.
MaxTasks == 2

\* ----------------------------------------------------- Python values ----

\* An argument: an int (n), a str (s), or an instance (at address n) of a
\* class, qualified name s, that defines no __repr__ of its own.
IntV(n) == [t |-> "int", n |-> n, s |-> <<>>]

StrV(s) == [t |-> "str", n |-> 0, s |-> s]

ObjV(cls, addr) == [t |-> "obj", n |-> addr, s |-> cls]

\* The user ids the wrapped functions are called with.
Args == {1, 2, 10}

\* What the underlying function can return.
Values == {"a", "b"}

\* Python's None, True and False as they appear in a result.
None == "None"

True == "True"

False == "False"

\* The underlying function raising, and its awaited computation cancelled.
Raise == "raise"

Cancel == "cancel"

Digits == <<"0", "1", "2", "3", "4", "5", "6", "7", "8", "9">>

\* repr of an int: its decimal digits.
RECURSIVE IntRepr(_)
IntRepr(n) ==
    IF n < 0 THEN <<"-">> \o IntRepr(-n)
    ELSE IF n < 10 THEN <<Digits[n + 1]>>
    ELSE IntRepr(n \div 10) \o <<Digits[(n % 10) + 1]>>

\* repr(o): digits for an int, the quoted text for a str, and object.__repr__
\* (which names the instance's address) for an instance without its own.
repr(o) ==
    CASE o.t = "int" -> IntRepr(o.n)
      [] o.t = "str" -> <<"'">> \o o.s \o <<"'">>
      [] OTHER -> <<"<">> \o o.s \o <<" ", "o", "b", "j", "e", "c", "t", " ",
                                      "a", "t", " ">> \o IntRepr(o.n) \o <<">">>

\* sep.join(parts)
RECURSIVE join(_, _)
join(sep, parts) ==
    IF parts = <<>> THEN <<>>
    ELSE IF Len(parts) = 1 THEN parts[1]
    ELSE parts[1] \o sep \o join(sep, Tail(parts))

\* Mutant of str_contains: k.endswith(s) in place of s in k.
str_endswith(k, s) ==
    Len(s) <= Len(k) /\ SubSeq(k, Len(k) - Len(s) + 1, Len(k)) = s

\* s in k, for two strs: s occurs in k at some offset.
str_contains(k, s) ==
    \E i \in 0..(Len(k) - Len(s)) : SubSeq(k, i + 1, i + Len(s)) = s

\* ------------------------------------------------ the wrapped functions --

\* The decorated functions: fn is a plain def, fetch_config an async def.
Funcs == {"fn", "fetch_config"}

\* A plain method named fn of a class Other of the same module: its __module__
\* and its __name__ are those of fn, its __qualname__ is Other.fn.
OtherFn == "Other.fn"

\* The plain function timestwo of the module test, of the decorator's
\* docstring.
TimesTwo == "timestwo"

func_module(f) ==
    IF f = TimesTwo THEN <<"t", "e", "s", "t">> ELSE <<"m", "o", "d">>

func_name(f) ==
    IF f \in {"fn", OtherFn} THEN <<"f", "n">>
    ELSE IF f = TimesTwo THEN <<"t", "i", "m", "e", "s", "t", "w", "o">>
    ELSE <<"f", "e", "t", "c", "h", "_", "c", "o", "n", "f", "i", "g">>

\* asyncio.iscoroutinefunction(func)
iscoroutinefunction(f) == f = "fetch_config"

\* inspect.isawaitable(func(*args, **kwargs)): an async def returns a
\* coroutine object when called, a plain def its value.
isawaitable(f) == f = "fetch_config"

\* -------------------------------------------------------- key resolution --

\* Mutant of _true_repr: repr(o) for every argument.
_true_repr_is_repr(o) == repr(o)

_true_repr(o) ==
    IF o.t = "obj" THEN <<"<">> \o o.s \o <<">">> ELSE repr(o)

RECURSIVE kwargs_reprs(_)
kwargs_reprs(kwargs) ==
    IF kwargs = <<>> THEN <<>>
    ELSE <<repr(StrV(kwargs[1][1])), repr(kwargs[1][2])>> \o kwargs_reprs(Tail(kwargs))

\* Mutant of _resolve_key: the key does not name the function.
_resolve_key_without_head(f, ignore, args, kwargs) ==
    LET pos == [i \in 1..Len(args) |-> _true_repr(args[i])]
        kw == IF ignore THEN <<>> ELSE kwargs_reprs(kwargs)
    IN join(<<":">>, pos \o kw)

\* Mutant of _resolve_key: the keyword arguments are in the key whatever
\* ignore_kwargs says.
_resolve_key_always_kwargs(f, ignore, args, kwargs) ==
    LET head == <<func_module(f) \o <<".">> \o func_name(f)>>
        pos == [i \in 1..Len(args) |-> _true_repr(args[i])]
    IN join(<<":">>, head \o pos \o kwargs_reprs(kwargs))

\* Mutant of _resolve_key: a keyword argument is bound to its parameter, so
\* its value is in the key as a positional argument's is.
_resolve_key_binds_names(f, ignore, args, kwargs) ==
    LET head == <<func_module(f) \o <<".">> \o func_name(f)>>
        pos == [i \in 1..Len(args) |-> _true_repr(args[i])]
        kw == IF ignore THEN <<>> ELSE [i \in 1..Len(kwargs) |-> repr(kwargs[i][2])]
    IN join(<<":">>, head \o pos \o kw)

\* args is the tuple of positional arguments, kwargs the keyword arguments
\* <<name, value>> in call order.
_resolve_key(f, ignore, args, kwargs) ==
    LET head == <<func_module(f) \o <<".">> \o func_name(f)>>
        pos == [i \in 1..Len(args) |-> _true_repr(args[i])]
        kw == IF ignore THEN <<>> ELSE kwargs_reprs(kwargs)
    IN join(<<":">>, head \o pos \o kw)

\* ignore_kwargs as the decorator defaults it.
ignore_kwargs_default == FALSE

\* ignore_kwargs[f]: the ignore_kwargs f was decorated with, which the closures
\* of f's wrapper read.
VARIABLE ignore_kwargs

\* The key of a call with the one positional argument x.
KeyOf(f, x) == _resolve_key(f, ignore_kwargs_default, <<IntV(x)>>, <<>>)

Keys == {KeyOf(f, x) : f \in Funcs, x \in Args}

\* -------------------------------------------------------------- LRUDict --

\* key in c
HasKey(c, k) == \E i \in 1..Len(c) : c[i].k = k

KeysIn(c) == {c[i].k : i \in 1..Len(c)}

\* Mutant of od_setitem: a present key keeps its old value (setdefault).
od_setitem_keeps_old(c, k, v) ==
    IF HasKey(c, k) THEN c ELSE Append(c, [k |-> k, v |-> v])

\* OrderedDict.__setitem__: a present key keeps its place and takes the new
\* value, an absent one is added at the end.
od_setitem(c, k, v) ==
    IF HasKey(c, k)
    THEN [i \in 1..Len(c) |-> IF c[i].k = k THEN [k |-> k, v |-> v] ELSE c[i]]
    ELSE Append(c, [k |-> k, v |-> v])

\* Mutant of move_to_end: the key stays where it is.
move_to_end_stays(c, k) == c

\* OrderedDict.move_to_end(key), key present.
move_to_end(c, k) ==
    LET i == CHOOSE j \in 1..Len(c) : c[j].k = k
    IN SubSeq(c, 1, i - 1) \o SubSeq(c, i + 1, Len(c)) \o <<c[i]>>

\* Mutant of evict: the loop is missing, nothing is ever deleted.
evict_nothing(c, max) == c

\* Mutant of evict: the loop deletes the newest other item, not the oldest.
RECURSIVE evict_newest(_, _)
evict_newest(c, max) ==
    IF Len(c) > max
    THEN evict_newest(SubSeq(c, 1, Len(c) - 2) \o <<c[Len(c)]>>, max)
    ELSE c

\* Mutant of evict: the loop deletes the item that was just inserted.
RECURSIVE evict_inserted(_, _)
evict_inserted(c, max) ==
    IF Len(c) > max THEN evict_inserted(SubSeq(c, 1, Len(c) - 1), max) ELSE c

\* while len(self) > self.max_len: delete next(iter(self))
RECURSIVE evict(_, _)
evict(c, max) == IF Len(c) > max THEN evict(Tail(c), max) ELSE c

\* LRUDict.__setitem__
LRUDict_setitem(c, max, k, v) == evict(move_to_end(od_setitem(c, k, v), k), max)

\* Mutant of LRUDict_getitem: the read leaves the key where it is.
getitem_without_move(c, k) ==
    IF ~HasKey(c, k)
    THEN [raised |-> "KeyError", val |-> None, cache |-> c]
    ELSE LET i == CHOOSE j \in 1..Len(c) : c[j].k = k
         IN [raised |-> None, val |-> c[i].v, cache |-> c]

\* LRUDict.__getitem__: KeyError for an absent key, else the value, the key
\* moved to the end.
LRUDict_getitem(c, k) ==
    IF ~HasKey(c, k)
    THEN [raised |-> "KeyError", val |-> None, cache |-> c]
    ELSE LET i == CHOOSE j \in 1..Len(c) : c[j].k = k
         IN [raised |-> None, val |-> c[i].v, cache |-> move_to_end(c, k)]

\* OrderedDict.__delitem__ (LRUDict does not override it): KeyError for an
\* absent key.
od_delitem(c, k) ==
    IF ~HasKey(c, k)
    THEN [raised |-> "KeyError", cache |-> c]
    ELSE [raised |-> None, cache |-> SelectSeq(c, LAMBDA e : e.k # k)]

\* -------------------------------------------------- the decorated function --

\* What a call hands back: val directly, or an awaitable.
plain(value) == [awaitable |-> FALSE, val |-> value]

\* Mutant of _wrap_value: the value itself, not a coroutine.
wrap_value_unwrapped(value) == [awaitable |-> FALSE, val |-> value]

\* _wrap_value(value): a coroutine that returns value when awaited.
_wrap_value(value) == [awaitable |-> TRUE, val |-> value]

\* Mutant of _prepare_coro: the store sits in a finally clause, so a failed
\* await leaves None under the key.
_prepare_coro_stores_on_error(c, max, key, outcome) ==
    IF outcome = Raise
    THEN [cache |-> LRUDict_setitem(c, max, key, None), val |-> None, raised |-> "Error"]
    ELSE IF outcome = Cancel THEN [cache |-> c, val |-> None, raised |-> "CancelledError"]
    ELSE [cache |-> LRUDict_setitem(c, max, key, outcome), val |-> outcome, raised |-> None]

\* Mutant of _prepare_coro: a cancellation is caught and None stored.
_prepare_coro_stores_on_cancel(c, max, key, outcome) ==
    IF outcome = Raise THEN [cache |-> c, val |-> None, raised |-> "Error"]
    ELSE IF outcome = Cancel
    THEN [cache |-> LRUDict_setitem(c, max, key, None), val |-> None,
          raised |-> "CancelledError"]
    ELSE [cache |-> LRUDict_setitem(c, max, key, outcome), val |-> outcome, raised |-> None]

\* Mutant of _prepare_coro: the first miss to complete wins, a later one
\* leaves the entry it finds.
_prepare_coro_keeps_first(c, max, key, outcome) ==
    IF outcome = Raise THEN [cache |-> c, val |-> None, raised |-> "Error"]
    ELSE IF outcome = Cancel THEN [cache |-> c, val |-> None, raised |-> "CancelledError"]
    ELSE IF HasKey(c, key) THEN [cache |-> c, val |-> outcome, raised |-> None]
    ELSE [cache |-> LRUDict_setitem(c, max, key, outcome), val |-> outcome, raised |-> None]

\* The coroutine _prepare_coro(coro, cache, key) returns, awaited to its end.
\* outcome is how `await coro` ends: with a value, which is stored under key
\* and returned, or with the exception func raised or a cancellation, which
\* leaves before the store.
_prepare_coro(c, max, key, outcome) ==
    IF outcome = Raise THEN [cache |-> c, val |-> None, raised |-> "Error"]
    ELSE IF outcome = Cancel THEN [cache |-> c, val |-> None, raised |-> "CancelledError"]
    ELSE [cache |-> LRUDict_setitem(c, max, key, outcome), val |-> outcome, raised |-> None]

\* Mutant of wrapper: func is called before the lookup, on a hit as well.
wrapper_calls_first(f, c, max, args, kwargs, outcome) ==
    LET key == _resolve_key(f, ignore_kwargs[f], args, kwargs)
        got == LRUDict_getitem(c, key)
    IN IF got.raised = "KeyError"
       THEN IF isawaitable(f)
            THEN [cache |-> c, ret |-> [awaitable |-> TRUE, val |-> None],
                  raised |-> None, invoked |-> 1, pending |-> <<key>>]
            ELSE IF outcome = Raise
            THEN [cache |-> c, ret |-> plain(None),
                  raised |-> "Error", invoked |-> 1, pending |-> <<>>]
            ELSE [cache |-> LRUDict_setitem(c, max, key, outcome), ret |-> plain(outcome),
                  raised |-> None, invoked |-> 1, pending |-> <<>>]
       ELSE [cache |-> got.cache,
             ret |-> IF iscoroutinefunction(f) THEN _wrap_value(got.val) ELSE plain(got.val),
             raised |-> None, invoked |-> 1, pending |-> <<>>]

\* Mutant of wrapper: on a miss the coroutine object is stored under the key
\* before _prepare_coro wraps it.
wrapper_stores_coroutine(f, c, max, args, kwargs, outcome) ==
    LET key == _resolve_key(f, ignore_kwargs[f], args, kwargs)
        got == LRUDict_getitem(c, key)
    IN IF got.raised = "KeyError"
       THEN IF isawaitable(f)
            THEN [cache |-> LRUDict_setitem(c, max, key, None),
                  ret |-> [awaitable |-> TRUE, val |-> None],
                  raised |-> None, invoked |-> 1, pending |-> <<key>>]
            ELSE IF outcome = Raise
            THEN [cache |-> c, ret |-> plain(None),
                  raised |-> "Error", invoked |-> 1, pending |-> <<>>]
            ELSE [cache |-> LRUDict_setitem(c, max, key, outcome), ret |-> plain(outcome),
                  raised |-> None, invoked |-> 1, pending |-> <<>>]
       ELSE [cache |-> got.cache,
             ret |-> IF iscoroutinefunction(f) THEN _wrap_value(got.val) ELSE plain(got.val),
             raised |-> None, invoked |-> 0, pending |-> <<>>]

\* Mutant of wrapper: a hit of a plain def calls func again and stores what it
\* returns over the entry.
wrapper_refreshes_on_hit(f, c, max, args, kwargs, outcome) ==
    LET key == _resolve_key(f, ignore_kwargs[f], args, kwargs)
    IN IF isawaitable(f)
       THEN IF HasKey(c, key)
            THEN [cache |-> LRUDict_getitem(c, key).cache,
                  ret |-> _wrap_value(LRUDict_getitem(c, key).val),
                  raised |-> None, invoked |-> 0, pending |-> <<>>]
            ELSE [cache |-> c, ret |-> [awaitable |-> TRUE, val |-> None],
                  raised |-> None, invoked |-> 1, pending |-> <<key>>]
       ELSE IF outcome = Raise
       THEN [cache |-> c, ret |-> plain(None), raised |-> "Error", invoked |-> 1,
             pending |-> <<>>]
       ELSE [cache |-> LRUDict_setitem(c, max, key, outcome), ret |-> plain(outcome),
             raised |-> None, invoked |-> 1, pending |-> <<>>]

\* Mutant of wrapper: a cached None counts as a miss.
wrapper_misses_on_none(f, c, max, args, kwargs, outcome) ==
    LET key == _resolve_key(f, ignore_kwargs[f], args, kwargs)
        got == LRUDict_getitem(c, key)
    IN IF got.raised = "KeyError" \/ got.val = None
       THEN IF isawaitable(f)
            THEN [cache |-> c, ret |-> [awaitable |-> TRUE, val |-> None],
                  raised |-> None, invoked |-> 1, pending |-> <<key>>]
            ELSE IF outcome = Raise
            THEN [cache |-> c, ret |-> plain(None),
                  raised |-> "Error", invoked |-> 1, pending |-> <<>>]
            ELSE [cache |-> LRUDict_setitem(c, max, key, outcome), ret |-> plain(outcome),
                  raised |-> None, invoked |-> 1, pending |-> <<>>]
       ELSE [cache |-> got.cache,
             ret |-> IF iscoroutinefunction(f) THEN _wrap_value(got.val) ELSE plain(got.val),
             raised |-> None, invoked |-> 0, pending |-> <<>>]

\* wrapper(*args, **kwargs) on the cache c.  outcome is what func does when it
\* is called: a plain def returns a value or raises; an async def returns a
\* coroutine object, which the wrapper hands to _prepare_coro unawaited
\* (pending holds its key).  invoked counts the calls of func.
wrapper(f, c, max, args, kwargs, outcome) ==
    LET key == _resolve_key(f, ignore_kwargs[f], args, kwargs)
        got == LRUDict_getitem(c, key)
    IN IF got.raised = "KeyError"
       THEN IF isawaitable(f)
            THEN [cache |-> c, ret |-> [awaitable |-> TRUE, val |-> None],
                  raised |-> None, invoked |-> 1, pending |-> <<key>>]
            ELSE IF outcome = Raise
            THEN [cache |-> c, ret |-> plain(None),
                  raised |-> "Error", invoked |-> 1, pending |-> <<>>]
            ELSE [cache |-> LRUDict_setitem(c, max, key, outcome), ret |-> plain(outcome),
                  raised |-> None, invoked |-> 1, pending |-> <<>>]
       ELSE [cache |-> got.cache,
             ret |-> IF iscoroutinefunction(f) THEN _wrap_value(got.val) ELSE plain(got.val),
             raised |-> None, invoked |-> 0, pending |-> <<>>]

\* Mutant of invalidate: the KeyError of an absent key is swallowed and True
\* returned all the same.
invalidate_always_true(f, c, args, kwargs) ==
    IF args = <<>> /\ kwargs = <<>>
    THEN [cache |-> <<>>, val |-> True, raised |-> None]
    ELSE LET d == od_delitem(c, _resolve_key(f, ignore_kwargs[f], args, kwargs))
         IN [cache |-> d.cache, val |-> True, raised |-> None]

\* Mutant of invalidate: no branch for the call without arguments, whose key
\* is then the function's name alone.
invalidate_without_clear(f, c, args, kwargs) ==
    LET d == od_delitem(c, _resolve_key(f, ignore_kwargs[f], args, kwargs))
    IN IF d.raised = "KeyError"
       THEN [cache |-> c, val |-> False, raised |-> None]
       ELSE [cache |-> d.cache, val |-> True, raised |-> None]

\* Mutant of invalidate: no except clause, so the KeyError of an absent key
\* reaches the caller.
invalidate_without_except(f, c, args, kwargs) ==
    IF args = <<>> /\ kwargs = <<>>
    THEN [cache |-> <<>>, val |-> True, raised |-> None]
    ELSE LET d == od_delitem(c, _resolve_key(f, ignore_kwargs[f], args, kwargs))
         IN IF d.raised = "KeyError"
            THEN [cache |-> c, val |-> None, raised |-> "KeyError"]
            ELSE [cache |-> d.cache, val |-> True, raised |-> None]

\* wrapper.invalidate(*args, **kwargs)
invalidate(f, c, args, kwargs) ==
    IF args = <<>> /\ kwargs = <<>>
    THEN [cache |-> <<>>, val |-> True, raised |-> None]
    ELSE LET d == od_delitem(c, _resolve_key(f, ignore_kwargs[f], args, kwargs))
         IN IF d.raised = "KeyError"
            THEN [cache |-> c, val |-> False, raised |-> None]
            ELSE [cache |-> d.cache, val |-> True, raised |-> None]

\* for key in to_remove: del _cache[key], a KeyError skipped
RECURSIVE del_each(_, _)
del_each(c, to_remove) ==
    IF to_remove = <<>> THEN c
    ELSE del_each(od_delitem(c, to_remove[1]).cache, Tail(to_remove))

\* Mutant of invalidate_containing: the dict is rebuilt from the items that
\* stay, the newest first.
invalidate_containing_rebuilds(c, key) ==
    LET keep == SelectSeq(c, LAMBDA e : ~str_contains(e.k, key))
    IN [cache |-> [i \in 1..Len(keep) |-> keep[Len(keep) + 1 - i]],
        val |-> None, raised |-> None]

\* wrapper.invalidate_containing(key), key a str
invalidate_containing(c, key) ==
    LET keys == [i \in 1..Len(c) |-> c[i].k]
        to_remove == SelectSeq(keys, LAMBDA k : str_contains(k, key))
    IN [cache |-> del_each(c, to_remove), val |-> None, raised |-> None]

\* Mutant of get_key: the key of the positional arguments alone.
get_key_without_kwargs(f, args, kwargs) == _resolve_key(f, TRUE, args, kwargs)

\* wrapper.get_key(*args, **kwargs)
get_key(f, args, kwargs) == _resolve_key(f, ignore_kwargs[f], args, kwargs)

\* ------------------------------------------------------------ decoration --

\* max_len as cache() defaults it.
max_len_default == 128

\* Mutant of LRUDict_init: only a negative max_len is refused.
LRUDict_init_accepts_zero(max) ==
    IF max < 0 THEN [raised |-> "ValueError", cache |-> <<>>, max_len |-> max]
    ELSE [raised |-> None, cache |-> <<>>, max_len |-> max]

\* LRUDict(max_len): ValueError, or an empty dict that remembers max_len.
LRUDict_init(max) ==
    IF max <= 0 THEN [raised |-> "ValueError", cache |-> <<>>, max_len |-> max]
    ELSE [raised |-> None, cache |-> <<>>, max_len |-> max]

\* cache(*args)(func), args <<>> or <<max_len>>: decorator(func) builds the
\* LRUDict first; if that raises there is no wrapper.
decorator(f, args) ==
    LET max == IF args = <<>> THEN max_len_default ELSE args[1]
        d == LRUDict_init(max)
    IN IF d.raised # None
       THEN [raised |-> d.raised, wrapped |-> FALSE, cache |-> <<>>, max_len |-> max]
       ELSE [raised |-> None, wrapped |-> TRUE, cache |-> d.cache, max_len |-> d.max_len]

\* ---------------------------------------------------------------- state --

VARIABLES
    _cache,     \* _cache[f]: the LRUDict of each decorated function f
    max_len,    \* max_len[f]: the max_len f was decorated with
    tasks,      \* tasks[f][k]: the _prepare_coro coroutines of f in flight for key k
    overtaken,  \* overtaken[f][k]: how many of them are late: a miss of k whose
                \* call started after theirs has completed already; they are
                \* the ones that started first (history, kept for the keys of
                \* its domain)
    invalidated, \* invalidated[f][k]: how many of them started before an
                \* invalidation of k that has returned; they too are the ones
                \* that started first (history, kept for the keys of its domain)
    db,         \* db[u]: the rows of user_config with id u, none or one
    cmds,       \* cmds[i]: a command of the Settings cog suspended at an await
    reply,      \* what the last command to finish sent
    written,    \* written[u]: the theme of the last write to u's row, whether the
                \* command that wrote it and all since ran one at a time, and
                \* whether its invalidation removed an entry (history)
    _batch,     \* _batch[b]: the Tracking cog's list of change records b
    saves,      \* the on_user_update handlers suspended while the avatar is saved
    tables,     \* tables[b]: the rows bulk_insert has inserted for batch b
    loop,       \* where bulk_insert_loop is, the argument of its execute, and
                \* where its last exception came and which batches held records
                \* then (history)
    db_ready,   \* bot.db_ready is set
    made,       \* made[b]: how many records were appended to batch b, and how
                \* many of them before db_ready was set (history)
    ret,        \* the last operation, what its caller got, whether the dict had
                \* its key before (had), how many entries it deleted (removed) and
                \* whether the coroutine that completed was late
    scen,       \* scen[f]: how far _cache[f] is into an insert-only run (history)
    lastSet,    \* lastSet[f][k]: the value last set for a key still held (history)
    converted   \* the argument handed to MonthConverter.convert and what came of it

vars ==
    <<_cache, max_len, ignore_kwargs, tasks, overtaken, invalidated, ret, scen, lastSet,
      db, cmds, reply, written, _batch, saves, tables, loop, db_ready, made, converted>>

\* What the Settings cog adds to the cache.
svars == <<db, cmds, reply, written>>

NoReply ==
    [op |-> "none", u |-> 0, theme |-> "", hit |-> FALSE, norow |-> FALSE, after |-> "",
     seq |-> FALSE, dropped |-> FALSE]

\* What the Tracking cog and its loop add.
tvars == <<_batch, saves, tables, loop, db_ready, made>>

\* What a conversion of a command's month argument adds.
mvars == <<converted>>

\* No conversion.
NoMonth == converted = [pc |-> "none"]

\* No Tracking cog: no batch, no loop.
NoTracking ==
    /\ _batch = [b \in {} |-> <<>>]
    /\ saves = <<>>
    /\ tables = [b \in {} |-> <<>>]
    /\ loop = [pc |-> "none"]
    /\ db_ready = FALSE
    /\ made = [b \in {} |-> 0]

\* No Settings cog: no table, no command.
NoSettings ==
    /\ db = [u \in {} |-> <<>>]
    /\ cmds = <<>>
    /\ reply = NoReply
    /\ written = [u \in {} |-> <<>>]

Unset == "unset"

\* The strs invalidate_containing is called with.
Substrings == {<<"1">>, <<"2">>, <<"1", "0">>, <<":", "1">>, <<"f", "n", ":">>, <<"x">>}

NoRet ==
    [op |-> "init", f |-> "", args |-> <<>>, kwargs |-> <<>>, key |-> <<>>, val |-> None,
     awaitable |-> FALSE, raised |-> None, invoked |-> 0, had |-> FALSE, removed |-> 0,
     late |-> FALSE, stale |-> FALSE]

\* ------------------------------------------------------ history variables --

\* What an operation did to the dict: a set of key, a successful get of key,
\* deletions, or nothing.
Ev(type, key, val) == [type |-> type, key |-> key, val |-> val]

Fresh == [ph |-> "ins", ks |-> <<>>]

Off == [ph |-> "off", ks |-> <<>>]

\* scen follows a run that starts at an empty dict: ks are the distinct keys
\* inserted so far and nothing else has touched the dict (ph "ins"); at max
\* keys, a get of the first (ph "read"); "done3" after the insert max + 1 of an
\* insert-only run, "done4" after the insert that follows the get.
ScenNext(s, ev, c, cNew, max) ==
    IF cNew = <<>> THEN Fresh
    ELSE IF ev.type = "none" THEN s
    ELSE IF ev.type = "set" /\ ~HasKey(c, ev.key) /\ s.ph = "ins" /\ Len(s.ks) <= max
            /\ \A i \in 1..Len(s.ks) : s.ks[i] # ev.key
    THEN [ph |-> IF Len(s.ks) = max THEN "done3" ELSE "ins", ks |-> Append(s.ks, ev.key)]
    ELSE IF ev.type = "set" /\ ~HasKey(c, ev.key) /\ s.ph = "read"
            /\ \A i \in 1..Len(s.ks) : s.ks[i] # ev.key
    THEN [ph |-> "done4", ks |-> Append(s.ks, ev.key)]
    ELSE IF ev.type = "get" /\ s.ph = "ins" /\ Len(s.ks) = max /\ s.ks[1] = ev.key
    THEN [ph |-> "read", ks |-> s.ks]
    ELSE Off

\* lastSet forgets a key that left the dict and records each set.
LastSetNext(l, ev, cNew) ==
    [k \in DOMAIN l |->
        IF ~HasKey(cNew, k) THEN Unset
        ELSE IF ev.type = "set" /\ ev.key = k THEN ev.val
        ELSE l[k]]

History(f, ev, cNew) ==
    /\ scen' = [scen EXCEPT ![f] = ScenNext(scen[f], ev, _cache[f], cNew, max_len[f])]
    /\ lastSet' = [lastSet EXCEPT ![f] = LastSetNext(lastSet[f], ev, cNew)]

\* --------------------------------------------------------------- actions --

InFlight(f) ==
    LET RECURSIVE sum(_)
        sum(S) == IF S = {} THEN 0
                  ELSE LET k == CHOOSE x \in S : TRUE IN tasks[f][k] + sum(S \ {k})
    IN sum(DOMAIN tasks[f])

\* One function is decorated, a plain def or an async def, with some max_len
\* and the default ignore_kwargs.
Init ==
    /\ \E f \in Funcs : \E m \in 1..MaxLen :
          /\ _cache = [g \in {f} |-> <<>>]
          /\ max_len = [g \in {f} |-> m]
          /\ ignore_kwargs = [g \in {f} |-> ignore_kwargs_default]
          /\ tasks = [g \in {f} |-> [k \in Keys |-> 0]]
          /\ overtaken = [g \in {f} |-> [k \in {} |-> 0]]
          /\ invalidated = [g \in {f} |-> [k \in {} |-> 0]]
          /\ scen = [g \in {f} |-> Fresh]
          /\ lastSet = [g \in {f} |-> [k \in Keys |-> Unset]]
    /\ ret = NoRet
    /\ NoSettings
    /\ NoTracking
    /\ NoMonth

\* Mutant of Call: a miss whose key already has a coroutine in flight joins it
\* and does not call func again.
Call_joins_in_flight(f, args, kwargs, outcome) ==
    \E r \in {wrapper(f, _cache[f], max_len[f], args, kwargs, outcome)} :
    \E key \in {_resolve_key(f, ignore_kwargs[f], args, kwargs)} :
    \E joins \in {r.pending # <<>> /\ tasks[f][key] > 0} :
        LET ev == IF r.invoked = 0 THEN Ev("get", key, None)
                  ELSE IF r.pending = <<>> /\ r.raised = None THEN Ev("set", key, outcome)
                  ELSE Ev("none", key, None)
        IN /\ (r.pending # <<>> /\ ~joins) => InFlight(f) < MaxTasks
           /\ _cache' = [_cache EXCEPT ![f] = r.cache]
           /\ tasks' = IF r.pending = <<>> \/ joins THEN tasks
                       ELSE [tasks EXCEPT ![f][r.pending[1]] = @ + 1]
           /\ ret' = [op |-> "call", f |-> f, args |-> args, kwargs |-> kwargs,
                      key |-> key, val |-> r.ret.val,
                      awaitable |-> r.ret.awaitable, raised |-> r.raised,
                      invoked |-> IF joins THEN 0 ELSE r.invoked,
                      had |-> HasKey(_cache[f], key), removed |-> 0,
                      late |-> FALSE, stale |-> FALSE]
           /\ History(f, ev, r.cache)
           /\ UNCHANGED <<max_len, ignore_kwargs, overtaken, invalidated>>

\* f(*args, **kwargs): the wrapper runs to its return.
Call(f, args, kwargs, outcome) ==
    \E r \in {wrapper(f, _cache[f], max_len[f], args, kwargs, outcome)} :
    \E key \in {_resolve_key(f, ignore_kwargs[f], args, kwargs)} :
        LET ev == IF r.invoked = 0 THEN Ev("get", key, None)
                  ELSE IF r.pending = <<>> /\ r.raised = None THEN Ev("set", key, outcome)
                  ELSE Ev("none", key, None)
        IN /\ r.pending # <<>> => InFlight(f) < MaxTasks
           /\ _cache' = [_cache EXCEPT ![f] = r.cache]
           /\ tasks' = IF r.pending = <<>> THEN tasks
                       ELSE [tasks EXCEPT ![f][r.pending[1]] = @ + 1]
           /\ ret' = [op |-> "call", f |-> f, args |-> args, kwargs |-> kwargs,
                      key |-> key, val |-> r.ret.val,
                      awaitable |-> r.ret.awaitable, raised |-> r.raised,
                      invoked |-> r.invoked, had |-> HasKey(_cache[f], key), removed |-> 0,
                      late |-> FALSE, stale |-> FALSE]
           /\ History(f, ev, r.cache)
           /\ UNCHANGED <<max_len, ignore_kwargs, overtaken, invalidated>>

\* The late ones among the coroutines of a key, once the i-th of them in the
\* order their calls started has completed: if it stored, all that started
\* before it are late.
Landed(late, i, stored) ==
    IF i <= late THEN late - 1
    ELSE IF stored THEN i - 1
    ELSE late

\* A coroutine the wrapper returned on a miss is awaited to its end: any of
\* those in flight for the key, whatever the order their calls started in.
Await(f, key, outcome) ==
    /\ tasks[f][key] > 0
    /\ \E i \in 1..tasks[f][key] :
       \E r \in {_prepare_coro(_cache[f], max_len[f], key, outcome)} :
        LET ev == IF r.raised = None THEN Ev("set", key, outcome) ELSE Ev("none", key, None)
        IN /\ tasks' = [tasks EXCEPT ![f][key] = @ - 1]
           /\ overtaken' = IF key \in DOMAIN overtaken[f]
                           THEN [overtaken EXCEPT ![f][key] = Landed(@, i, r.raised = None)]
                           ELSE overtaken
           /\ invalidated' = IF key \in DOMAIN invalidated[f]
                             THEN [invalidated EXCEPT
                                      ![f][key] = IF i <= @ THEN @ - 1 ELSE @]
                             ELSE invalidated
           /\ _cache' = [_cache EXCEPT ![f] = r.cache]
           /\ ret' = [op |-> "await", f |-> f, args |-> <<>>, kwargs |-> <<>>,
                      key |-> key, val |-> r.val,
                      awaitable |-> FALSE, raised |-> r.raised, invoked |-> 0,
                      had |-> HasKey(_cache[f], key), removed |-> 0,
                      late |-> key \in DOMAIN overtaken[f] /\ i <= overtaken[f][key],
                      stale |-> key \in DOMAIN invalidated[f] /\ i <= invalidated[f][key]]
           /\ History(f, ev, r.cache)
           /\ UNCHANGED <<max_len, ignore_kwargs>>

\* The coroutines in flight when an invalidation returns started before it:
\* those of the key, or of every key when invalidate() had no arguments.
Outdated(inv, inflight, key) ==
    [k \in DOMAIN inv |-> IF key = <<>> \/ k = key THEN inflight[k] ELSE inv[k]]

OutdatedContaining(inv, inflight, s) ==
    [k \in DOMAIN inv |-> IF str_contains(k, s) THEN inflight[k] ELSE inv[k]]

\* Mutant of Invalidate: invalidate() without arguments clears the cache of
\* every decorated function.
Invalidate_clears_every_cache(f, args, kwargs) ==
    \E r \in {invalidate(f, _cache[f], args, kwargs)} :
    \E key \in {IF args = <<>> /\ kwargs = <<>> THEN <<>>
                ELSE _resolve_key(f, ignore_kwargs[f], args, kwargs)} :
        /\ _cache' = [g \in DOMAIN _cache |->
                        IF g = f THEN r.cache
                        ELSE IF args = <<>> /\ kwargs = <<>> THEN <<>>
                        ELSE _cache[g]]
        /\ ret' = [op |-> "invalidate", f |-> f, args |-> args, kwargs |-> kwargs,
                   key |-> key, val |-> r.val,
                   awaitable |-> FALSE, raised |-> r.raised, invoked |-> 0,
                   had |-> HasKey(_cache[f], key),
                   removed |-> Len(_cache[f]) - Len(r.cache), late |-> FALSE, stale |-> FALSE]
        /\ History(f, Ev("del", key, None), r.cache)
        /\ invalidated' = [invalidated EXCEPT ![f] = Outdated(@, tasks[f], key)]
        /\ UNCHANGED <<max_len, ignore_kwargs, tasks, overtaken>>

\* f.invalidate(*args, **kwargs)
Invalidate(f, args, kwargs) ==
    \E r \in {invalidate(f, _cache[f], args, kwargs)} :
    \E key \in {IF args = <<>> /\ kwargs = <<>> THEN <<>>
                ELSE _resolve_key(f, ignore_kwargs[f], args, kwargs)} :
        /\ _cache' = [_cache EXCEPT ![f] = r.cache]
        /\ ret' = [op |-> "invalidate", f |-> f, args |-> args, kwargs |-> kwargs,
                   key |-> key, val |-> r.val,
                   awaitable |-> FALSE, raised |-> r.raised, invoked |-> 0,
                   had |-> HasKey(_cache[f], key),
                   removed |-> Len(_cache[f]) - Len(r.cache), late |-> FALSE, stale |-> FALSE]
        /\ History(f, Ev("del", key, None), r.cache)
        /\ invalidated' = [invalidated EXCEPT ![f] = Outdated(@, tasks[f], key)]
        /\ UNCHANGED <<max_len, ignore_kwargs, tasks, overtaken>>

\* f.invalidate_containing(s)
InvalidateContaining(f, s) ==
    \E r \in {invalidate_containing(_cache[f], s)} :
        /\ _cache' = [_cache EXCEPT ![f] = r.cache]
        /\ ret' = [op |-> "invalidate_containing", f |-> f, args |-> <<s>>,
                   kwargs |-> <<>>, key |-> s, val |-> r.val,
                   awaitable |-> FALSE, raised |-> r.raised, invoked |-> 0, had |-> FALSE,
                   removed |-> Len(_cache[f]) - Len(r.cache), late |-> FALSE, stale |-> FALSE]
        /\ History(f, Ev("del", s, None), r.cache)
        /\ invalidated' = [invalidated EXCEPT ![f] = OutdatedContaining(@, tasks[f], s)]
        /\ UNCHANGED <<max_len, ignore_kwargs, tasks, overtaken>>

\* f.get_key(*args, **kwargs)
GetKey(f, args, kwargs) ==
    /\ ret' = [op |-> "get_key", f |-> f, args |-> args, kwargs |-> kwargs,
               key |-> get_key(f, args, kwargs), val |-> None, awaitable |-> FALSE,
               raised |-> None, invoked |-> 0, had |-> FALSE, removed |-> 0,
               late |-> FALSE, stale |-> FALSE]
    /\ UNCHANGED <<_cache, max_len, ignore_kwargs, tasks, overtaken, invalidated,
                 scen, lastSet>>

\* @cache.cache(*args) on f, while nothing is decorated yet.
Decorate(f, args) ==
    /\ DOMAIN _cache = {}
    /\ \E r \in {decorator(f, args)} :
        /\ ret' = [op |-> "decorate", f |-> f, args |-> args, kwargs |-> <<>>,
                   key |-> <<>>, val |-> None, awaitable |-> FALSE, raised |-> r.raised,
                   invoked |-> 0, had |-> FALSE, removed |-> 0, late |-> FALSE, stale |-> FALSE]
        /\ IF r.wrapped
           THEN /\ _cache' = [g \in {f} |-> r.cache]
                /\ max_len' = [g \in {f} |-> r.max_len]
                /\ ignore_kwargs' = [g \in {f} |-> ignore_kwargs_default]
                /\ tasks' = [g \in {f} |-> [k \in Keys |-> 0]]
                /\ overtaken' = [g \in {f} |-> [k \in {} |-> 0]]
                /\ invalidated' = [g \in {f} |-> [k \in {} |-> 0]]
                /\ scen' = [g \in {f} |-> Fresh]
                /\ lastSet' = [g \in {f} |-> [k \in Keys |-> Unset]]
           ELSE UNCHANGED <<_cache, max_len, ignore_kwargs, tasks, overtaken, invalidated,
                 scen, lastSet>>

CallStep ==
    /\ UNCHANGED <<svars, tvars, mvars>>
    /\ \E f \in DOMAIN _cache, x \in Args, o \in Values \cup {Raise} :
        Call(f, <<IntV(x)>>, <<>>, o)

AwaitStep ==
    /\ UNCHANGED <<svars, tvars, mvars>>
    /\ \E f \in DOMAIN _cache, k \in Keys, o \in Values \cup {Raise, Cancel} : Await(f, k, o)

InvalidateStep ==
    /\ UNCHANGED <<svars, tvars, mvars>>
    /\ \E f \in DOMAIN _cache, args \in {<<>>} \cup {<<IntV(x)>> : x \in Args} :
        Invalidate(f, args, <<>>)

InvalidateContainingStep ==
    /\ UNCHANGED <<svars, tvars, mvars>>
    /\ \E f \in DOMAIN _cache, s \in Substrings : InvalidateContaining(f, s)

Next == CallStep \/ AwaitStep \/ InvalidateStep \/ InvalidateContainingStep

Spec == Init /\ [][Next]_vars

\* ---------------------------------------------- from before the decoration --

\* The max_len arguments of cache(): none, or an int from -1 up.
MaxLenArgs == {<<>>} \cup {<<m>> : m \in -1..MaxLen}

\* Nothing is decorated.
InitDecorate ==
    /\ _cache = [g \in {} |-> <<>>]
    /\ max_len = [g \in {} |-> 0]
    /\ ignore_kwargs = [g \in {} |-> FALSE]
    /\ tasks = [g \in {} |-> <<>>]
    /\ overtaken = [g \in {} |-> <<>>]
    /\ invalidated = [g \in {} |-> <<>>]
    /\ scen = [g \in {} |-> Fresh]
    /\ lastSet = [g \in {} |-> <<>>]
    /\ ret = NoRet
    /\ NoSettings
    /\ NoTracking
    /\ NoMonth

DecorateStep ==
    /\ UNCHANGED <<svars, tvars, mvars>>
    /\ \E f \in Funcs, args \in MaxLenArgs : Decorate(f, args)

NextDecorate == DecorateStep \/ Next

SpecDecorate == InitDecorate /\ [][NextDecorate]_vars

\* ------------------------------------- the order in which misses started --

\* The async def is called with two user ids, and the history keeps the order
\* in which the calls of one key started.
OrderArgs == {1, 2}

OrderKeys == {KeyOf("fetch_config", x) : x \in OrderArgs}

InitOrder ==
    /\ \E m \in 1..MaxLen :
          /\ _cache = [g \in {"fetch_config"} |-> <<>>]
          /\ max_len = [g \in {"fetch_config"} |-> m]
    /\ ignore_kwargs = [g \in {"fetch_config"} |-> ignore_kwargs_default]
    /\ tasks = [g \in {"fetch_config"} |-> [k \in Keys |-> 0]]
    /\ overtaken = [g \in {"fetch_config"} |-> [k \in OrderKeys |-> 0]]
    /\ invalidated = [g \in {"fetch_config"} |-> [k \in OrderKeys |-> 0]]
    /\ scen = [g \in {"fetch_config"} |-> Fresh]
    /\ lastSet = [g \in {"fetch_config"} |-> [k \in Keys |-> Unset]]
    /\ ret = NoRet
    /\ NoSettings
    /\ NoTracking
    /\ NoMonth

\* Calling an async def runs none of its body: what the coroutine comes to is
\* settled when it is awaited.
CallOrderStep ==
    /\ UNCHANGED <<svars, tvars, mvars>>
    /\ \E x \in OrderArgs : Call("fetch_config", <<IntV(x)>>, <<>>, None)

AwaitOrderStep ==
    /\ UNCHANGED <<svars, tvars, mvars>>
    /\ \E k \in OrderKeys, o \in Values \cup {Raise, Cancel} : Await("fetch_config", k, o)

InvalidateOrderStep ==
    /\ UNCHANGED <<svars, tvars, mvars>>
    /\ \E args \in {<<>>} \cup {<<IntV(x)>> : x \in OrderArgs} :
        Invalidate("fetch_config", args, <<>>)

NextOrder == CallOrderStep \/ AwaitOrderStep \/ InvalidateOrderStep

SpecOrder == InitOrder /\ [][NextOrder]_vars

\* ------------------------------------- invalidations and keys side by side --

\* One function is called, invalidated and asked for its keys.
FrameSubstrings == {<<"1">>, <<"2">>, <<"x">>}

CallFrameStep ==
    /\ UNCHANGED <<svars, tvars, mvars>>
    /\ \E f \in DOMAIN _cache, x \in Args, o \in Values : Call(f, <<IntV(x)>>, <<>>, o)

AwaitFrameStep ==
    /\ UNCHANGED <<svars, tvars, mvars>>
    /\ \E f \in DOMAIN _cache, k \in Keys, o \in Values : Await(f, k, o)

InvalidateFrameStep ==
    /\ UNCHANGED <<svars, tvars, mvars>>
    /\ \E f \in DOMAIN _cache, args \in {<<>>} \cup {<<IntV(x)>> : x \in Args} :
        Invalidate(f, args, <<>>)

InvalidateContainingFrameStep ==
    /\ UNCHANGED <<svars, tvars, mvars>>
    /\ \E f \in DOMAIN _cache, s \in FrameSubstrings : InvalidateContaining(f, s)

GetKeyFrameStep ==
    /\ UNCHANGED <<svars, tvars, mvars>>
    /\ \E f \in DOMAIN _cache, x \in Args : GetKey(f, <<IntV(x)>>, <<>>)

NextFrame ==
    \/ CallFrameStep
    \/ AwaitFrameStep
    \/ InvalidateFrameStep
    \/ InvalidateContainingFrameStep
    \/ GetKeyFrameStep

SpecFrame == Init /\ [][NextFrame]_vars

\* ------------------------------------------------ keyword arguments --

\* A user id, and the keyword arguments of a call: none, v=1 or v=2.
KwPos == {1}

KwArgs == {<<>>, << << <<"v">>, IntV(1) >> >>, << << <<"v">>, IntV(2) >> >>}

KwKeys ==
    {_resolve_key(f, i, <<IntV(x)>>, kw) :
        f \in Funcs, i \in BOOLEAN, x \in KwPos, kw \in KwArgs}

\* What the plain def returns: "b" for v=2, "a" otherwise.
KwResult(kwargs) ==
    IF kwargs # <<>> /\ kwargs[1][2] = IntV(2) THEN "b" ELSE "a"

\* One function is decorated, with some max_len and some ignore_kwargs.
InitKw ==
    /\ \E f \in Funcs : \E m \in 1..MaxLen : \E i \in BOOLEAN :
          /\ _cache = [g \in {f} |-> <<>>]
          /\ max_len = [g \in {f} |-> m]
          /\ ignore_kwargs = [g \in {f} |-> i]
          /\ tasks = [g \in {f} |-> [k \in KwKeys |-> 0]]
          /\ overtaken = [g \in {f} |-> [k \in {} |-> 0]]
          /\ invalidated = [g \in {f} |-> [k \in {} |-> 0]]
          /\ scen = [g \in {f} |-> Fresh]
          /\ lastSet = [g \in {f} |-> [k \in KwKeys |-> Unset]]
    /\ ret = NoRet
    /\ NoSettings
    /\ NoTracking
    /\ NoMonth

CallKwStep ==
    /\ UNCHANGED <<svars, tvars, mvars>>
    /\ \E f \in DOMAIN _cache, x \in KwPos, kw \in KwArgs :
        \E o \in {KwResult(kw), Raise} : Call(f, <<IntV(x)>>, kw, o)

AwaitKwStep ==
    /\ UNCHANGED <<svars, tvars, mvars>>
    /\ \E f \in DOMAIN _cache, k \in KwKeys, o \in Values \cup {Raise} : Await(f, k, o)

InvalidateKwStep ==
    /\ UNCHANGED <<svars, tvars, mvars>>
    /\ \E f \in DOMAIN _cache, x \in KwPos, kw \in KwArgs : Invalidate(f, <<IntV(x)>>, kw)

GetKeyKwStep ==
    /\ UNCHANGED <<svars, tvars, mvars>>
    /\ \E f \in DOMAIN _cache, x \in KwPos, kw \in KwArgs : GetKey(f, <<IntV(x)>>, kw)

NextKw == CallKwStep \/ AwaitKwStep \/ InvalidateKwStep \/ GetKeyKwStep

SpecKw == InitKw /\ [][NextKw]_vars

\* ------------------------------------- one argument, by position or by name --

\* f(x) is called and invalidated with its argument given by position, f(1),
\* or by name, f(x=1).
NameArgs == {1, 2}

ByPosition(x) == [args |-> <<IntV(x)>>, kwargs |-> <<>>]

ByName(x) == [args |-> <<>>, kwargs |-> << << <<"x">>, IntV(x) >> >>]

NameCalls == {ByPosition(x) : x \in NameArgs} \cup {ByName(x) : x \in NameArgs}

NameKeys ==
    {_resolve_key(f, ignore_kwargs_default, a.args, a.kwargs) : f \in Funcs, a \in NameCalls}

\* What f returns: "a" when x is given by position, "b" when by name.
NameResult(a) == IF a.kwargs = <<>> THEN "a" ELSE "b"

InitName ==
    /\ \E f \in Funcs : \E m \in 1..MaxLen :
          /\ _cache = [g \in {f} |-> <<>>]
          /\ max_len = [g \in {f} |-> m]
          /\ ignore_kwargs = [g \in {f} |-> ignore_kwargs_default]
          /\ tasks = [g \in {f} |-> [k \in NameKeys |-> 0]]
          /\ overtaken = [g \in {f} |-> [k \in {} |-> 0]]
          /\ invalidated = [g \in {f} |-> [k \in {} |-> 0]]
          /\ scen = [g \in {f} |-> Fresh]
          /\ lastSet = [g \in {f} |-> [k \in NameKeys |-> Unset]]
    /\ ret = NoRet
    /\ NoSettings
    /\ NoTracking
    /\ NoMonth

CallNameStep ==
    /\ UNCHANGED <<svars, tvars, mvars>>
    /\ \E f \in DOMAIN _cache, a \in NameCalls : Call(f, a.args, a.kwargs, NameResult(a))

AwaitNameStep ==
    /\ UNCHANGED <<svars, tvars, mvars>>
    /\ \E f \in DOMAIN _cache, k \in NameKeys : Await(f, k, "a")

InvalidateNameStep ==
    /\ UNCHANGED <<svars, tvars, mvars>>
    /\ \E f \in DOMAIN _cache, a \in NameCalls : Invalidate(f, a.args, a.kwargs)

NextName == CallNameStep \/ AwaitNameStep \/ InvalidateNameStep

SpecName == InitName /\ [][NextName]_vars

\* ------------------------------------------------ two decorated functions --

\* Two functions of one module are decorated: fn and the method of the same
\* name, or fn and fetch_config.
Pairs == {{"fn", OtherFn}, {"fn", "fetch_config"}}

\* The user ids each is called with: two for the plain functions, one for
\* fetch_config.
TwoArgs(f) == IF f = "fetch_config" THEN {1} ELSE {1, 2}

TwoKeys == {KeyOf(f, x) : f \in Funcs, x \in {1, 2}}

InitTwo ==
    /\ \E P \in Pairs : \E m \in 1..MaxLen :
          /\ _cache = [g \in P |-> <<>>]
          /\ max_len = [g \in P |-> m]
          /\ ignore_kwargs = [g \in P |-> ignore_kwargs_default]
          /\ tasks = [g \in P |-> [k \in Keys |-> 0]]
          /\ overtaken = [g \in P |-> [k \in {} |-> 0]]
          /\ invalidated = [g \in P |-> [k \in {} |-> 0]]
          /\ scen = [g \in P |-> Fresh]
          /\ lastSet = [g \in P |-> [k \in Keys |-> Unset]]
    /\ ret = NoRet
    /\ NoSettings
    /\ NoTracking
    /\ NoMonth

CallTwoStep ==
    /\ UNCHANGED <<svars, tvars, mvars>>
    /\ \E f \in DOMAIN _cache : \E x \in TwoArgs(f), o \in Values :
        Call(f, <<IntV(x)>>, <<>>, o)

AwaitTwoStep ==
    /\ UNCHANGED <<svars, tvars, mvars>>
    /\ \E f \in DOMAIN _cache, k \in TwoKeys, o \in Values :
        Await(f, k, o)

InvalidateTwoStep ==
    /\ UNCHANGED <<svars, tvars, mvars>>
    /\ \E f \in DOMAIN _cache : \E args \in {<<>>} \cup {<<IntV(x)>> : x \in TwoArgs(f)} :
        Invalidate(f, args, <<>>)

InvalidateContainingTwoStep ==
    /\ UNCHANGED <<svars, tvars, mvars>>
    /\ \E f \in DOMAIN _cache, s \in {<<"1">>, <<"f", "n", ":">>} :
        InvalidateContaining(f, s)

GetKeyTwoStep ==
    /\ UNCHANGED <<svars, tvars, mvars>>
    /\ \E f \in DOMAIN _cache : \E x \in TwoArgs(f) : GetKey(f, <<IntV(x)>>, <<>>)

NextTwo ==
    \/ CallTwoStep
    \/ AwaitTwoStep
    \/ InvalidateTwoStep
    \/ InvalidateContainingTwoStep
    \/ GetKeyTwoStep

SpecTwo == InitTwo /\ [][NextTwo]_vars

\* -------------------------------------------------- decorated methods --

\* The class Settings of the module, which defines no __repr__, and two
\* instances of it.
SettingsCls == <<"m", "o", "d", ".", "S", "e", "t", "t", "i", "n", "g", "s">>

Selves == {ObjV(SettingsCls, 1), ObjV(SettingsCls, 2)}

SelfArgs == {1, 2}

SelfKeys ==
    {_resolve_key(f, ignore_kwargs_default, <<s, IntV(x)>>, <<>>) :
        f \in Funcs, s \in Selves, x \in SelfArgs}

\* What the plain method returns: "a" on the first instance, "b" on the other.
SelfResult(self) == IF self.n = 1 THEN "a" ELSE "b"

\* One method is decorated, a plain def or an async def.
InitSelf ==
    /\ \E f \in Funcs : \E m \in 1..MaxLen :
          /\ _cache = [g \in {f} |-> <<>>]
          /\ max_len = [g \in {f} |-> m]
          /\ ignore_kwargs = [g \in {f} |-> ignore_kwargs_default]
          /\ tasks = [g \in {f} |-> [k \in SelfKeys |-> 0]]
          /\ overtaken = [g \in {f} |-> [k \in {} |-> 0]]
          /\ invalidated = [g \in {f} |-> [k \in {} |-> 0]]
          /\ scen = [g \in {f} |-> Fresh]
          /\ lastSet = [g \in {f} |-> [k \in SelfKeys |-> Unset]]
    /\ ret = NoRet
    /\ NoSettings
    /\ NoTracking
    /\ NoMonth

\* self.f(x)
CallSelfStep ==
    /\ UNCHANGED <<svars, tvars, mvars>>
    /\ \E f \in DOMAIN _cache, self \in Selves, x \in SelfArgs :
        \E o \in {SelfResult(self), Raise} : Call(f, <<self, IntV(x)>>, <<>>, o)

AwaitSelfStep ==
    /\ UNCHANGED <<svars, tvars, mvars>>
    /\ \E f \in DOMAIN _cache, k \in SelfKeys, o \in Values \cup {Raise} : Await(f, k, o)

\* self.f.invalidate(self, x)
InvalidateSelfStep ==
    /\ UNCHANGED <<svars, tvars, mvars>>
    /\ \E f \in DOMAIN _cache, self \in Selves, x \in SelfArgs :
        Invalidate(f, <<self, IntV(x)>>, <<>>)

NextSelf == CallSelfStep \/ AwaitSelfStep \/ InvalidateSelfStep

SpecSelf == InitSelf /\ [][NextSelf]_vars

\* ------------------------------------------- the docstring's example --

\* timestwo is called with a str and an int.
DocStrs == {<<"e", "x">>, <<"w", "h", "y">>}

DocInts == {2, 3}

DocArgs == {<<StrV(s), IntV(n)>> : s \in DocStrs, n \in DocInts}

DocKeys == {_resolve_key(TimesTwo, ignore_kwargs_default, a, <<>>) : a \in DocArgs}

InitDoc ==
    /\ \E m \in 1..MaxLen :
          /\ _cache = [g \in {TimesTwo} |-> <<>>]
          /\ max_len = [g \in {TimesTwo} |-> m]
    /\ ignore_kwargs = [g \in {TimesTwo} |-> ignore_kwargs_default]
    /\ tasks = [g \in {TimesTwo} |-> [k \in DocKeys |-> 0]]
    /\ overtaken = [g \in {TimesTwo} |-> [k \in {} |-> 0]]
    /\ invalidated = [g \in {TimesTwo} |-> [k \in {} |-> 0]]
    /\ scen = [g \in {TimesTwo} |-> Fresh]
    /\ lastSet = [g \in {TimesTwo} |-> [k \in DocKeys |-> Unset]]
    /\ ret = NoRet
    /\ NoSettings
    /\ NoTracking
    /\ NoMonth

CallDocStep ==
    /\ UNCHANGED <<svars, tvars, mvars>>
    /\ \E a \in DocArgs, o \in Values : Call(TimesTwo, a, <<>>, o)

InvalidateDocStep ==
    /\ UNCHANGED <<svars, tvars, mvars>>
    /\ \E a \in DocArgs : Invalidate(TimesTwo, a, <<>>)

GetKeyDocStep ==
    /\ UNCHANGED <<svars, tvars, mvars>>
    /\ \E a \in DocArgs : GetKey(TimesTwo, a, <<>>)

NextDoc == CallDocStep \/ InvalidateDocStep \/ GetKeyDocStep

SpecDoc == InitDoc /\ [][NextDoc]_vars

\* ------------------------------------------------------ the Settings cog --

\* None as a value of the theme column.
NoneV == [t |-> "None", n |-> 0, s |-> <<>>]

\* A Theme is written as its name, which is what str(theme) returns.
DARK == "dark"

LIGHT == "light"

\* THEME_MAPPING, in the order of the dict literal.
THEME_MAPPING ==
    <<[k |-> NoneV, v |-> DARK], [k |-> IntV(0), v |-> DARK], [k |-> IntV(1), v |-> LIGHT]>>

\* get_theme(theme_id)
get_theme(theme_id) ==
    THEME_MAPPING[CHOOSE i \in 1..Len(THEME_MAPPING) : THEME_MAPPING[i].k = theme_id].v

\* What users type after `theme`.
ThemeArgs == {"dark", "light", "Light", "blue"}

\* str.lower() on them.
lower(arg) == IF arg = "Light" THEN "light" ELSE arg

\* ThemeConverter.convert: the first item of THEME_MAPPING whose theme has the
\* lowercased name, as (theme, id), or BadArgument.
ThemeConverter_convert(arg) ==
    LET hits == {i \in 1..Len(THEME_MAPPING) : THEME_MAPPING[i].v = lower(arg)}
    IN IF hits = {} THEN [raised |-> "BadArgument", theme |-> "", id |-> NoneV]
       ELSE LET i == CHOOSE j \in hits : \A h \in hits : j <= h
            IN [raised |-> None, theme |-> THEME_MAPPING[i].v, id |-> THEME_MAPPING[i].k]

\* UserConfig.from_record(record).  A UserConfig is written as the name of its
\* theme, the one field the commands read.
UserConfig_from_record(record) == get_theme(record.theme)

\* The body of Settings.fetch_config once fetchrow has returned rows.
fetch_config_result(rows) ==
    IF rows = <<>> THEN None ELSE UserConfig_from_record(rows[1])

\* theme = config.theme if config else get_theme(None)
theme_of(config) == IF config # None THEN config ELSE get_theme(NoneV)

\* The users of the bot, the one Settings instance and its keys.
Users == {1}

Self == ObjV(SettingsCls, 1)

FetchConfig == "fetch_config"

UserKey(u) == _resolve_key(FetchConfig, ignore_kwargs_default, <<Self, IntV(u)>>, <<>>)

Slots == 1..MaxTasks

IdleCmd ==
    [op |-> "idle", u |-> 0, pc |-> "", rows |-> <<>>, theme |-> "", id |-> NoneV,
     after |-> ""]

Busy == \E i \in Slots : cmds[i].op # "idle"

\* The table is empty and fetch_config is decorated with @cache.cache().
InitSettings ==
    /\ _cache = [g \in {FetchConfig} |-> <<>>]
    /\ max_len = [g \in {FetchConfig} |-> max_len_default]
    /\ ignore_kwargs = [g \in {FetchConfig} |-> ignore_kwargs_default]
    /\ tasks = [g \in {FetchConfig} |-> [k \in {UserKey(u) : u \in Users} |-> 0]]
    /\ overtaken = [g \in {FetchConfig} |-> [k \in {} |-> 0]]
    /\ invalidated = [g \in {FetchConfig} |-> [k \in {} |-> 0]]
    /\ scen = [g \in {FetchConfig} |-> Fresh]
    /\ lastSet = [g \in {FetchConfig} |-> [k \in {UserKey(u) : u \in Users} |-> Unset]]
    /\ ret = NoRet
    /\ db = [u \in Users |-> <<>>]
    /\ cmds = [i \in Slots |-> IdleCmd]
    /\ reply = NoReply
    /\ written = [u \in Users |-> [theme |-> "", seq |-> FALSE, dropped |-> FALSE]]
    /\ NoTracking
    /\ NoMonth

\* ctx.send(f"Your current theme: `{theme}`"), with what is known of the
\* command that sends it: whether fetch_config was a hit, whether the user has
\* no row, the theme of the last write when the command started (after),
\* whether that write and the commands since, this one included, ran one at a
\* time (seq), and whether that write's invalidation removed an entry.
ViewReply(u, config, hit, after, seq) ==
    [op |-> "view", u |-> u, theme |-> theme_of(config), hit |-> hit,
     norow |-> db[u] = <<>>, after |-> after, seq |-> seq,
     dropped |-> written[u].dropped]

\* A command that starts while another is suspended ends every run of
\* commands taken one at a time.
Overlapped(w) == [v \in DOMAIN w |-> [w[v] EXCEPT !.seq = @ /\ ~Busy]]

\* `theme` without an argument, up to its first suspension: fetch_config is a
\* hit and the reply is sent, or it is a miss and the command waits for
\* fetchrow.  after is the theme of the last write to u's row when no command
\* that writes it is suspended.
ViewStart(i, u) ==
    /\ cmds[i].op = "idle"
    /\ Call(FetchConfig, <<Self, IntV(u)>>, <<>>, None)
    /\ LET key == UserKey(u)
           after == IF \E j \in Slots : cmds[j].op = "set" /\ cmds[j].u = u
                    THEN "" ELSE written[u].theme
       IN IF HasKey(_cache[FetchConfig], key)
          THEN /\ reply' = ViewReply(u, ret'.val, TRUE, after, written[u].seq /\ ~Busy)
               /\ cmds' = cmds
          ELSE /\ cmds' = [cmds EXCEPT ![i] = [IdleCmd EXCEPT !.op = "view", !.u = u,
                                                 !.pc = "fetchrow", !.after = after]]
               /\ reply' = reply
    /\ written' = Overlapped(written)
    /\ db' = db

\* The database runs the SELECT of a suspended fetch_config.
DbRead(i) ==
    /\ cmds[i].op = "view" /\ cmds[i].pc = "fetchrow"
    /\ cmds' = [cmds EXCEPT ![i].pc = "fetched", ![i].rows = db[cmds[i].u]]
    /\ UNCHANGED <<_cache, max_len, ignore_kwargs, tasks, overtaken, invalidated, ret,
                   scen, lastSet, db, reply, written>>

\* fetchrow returns: fetch_config returns its config, the coroutine of
\* _prepare_coro stores it, and the command sends its reply.
ViewResume(i) ==
    /\ cmds[i].op = "view" /\ cmds[i].pc = "fetched"
    /\ LET u == cmds[i].u
           config == fetch_config_result(cmds[i].rows)
       IN /\ Await(FetchConfig, UserKey(u), config)
          /\ reply' = ViewReply(u, config, FALSE, cmds[i].after, written[u].seq)
    /\ cmds' = [cmds EXCEPT ![i] = IdleCmd]
    /\ UNCHANGED <<db, written>>

\* `theme <arg>` up to its first suspension: the converter, then the command
\* waits for execute.
SetStart(i, u, arg) ==
    /\ cmds[i].op = "idle"
    /\ \E conv \in {ThemeConverter_convert(arg)} :
          IF conv.raised # None
          THEN /\ reply' = [NoReply EXCEPT !.op = "error", !.u = u]
               /\ UNCHANGED <<cmds, written>>
          ELSE /\ cmds' = [j \in Slots |->
                             IF j = i
                             THEN [IdleCmd EXCEPT !.op = "set", !.u = u, !.pc = "execute",
                                                  !.theme = conv.theme, !.id = conv.id]
                             ELSE IF cmds[j].op = "view" /\ cmds[j].u = u
                             THEN [cmds[j] EXCEPT !.after = ""]
                             ELSE cmds[j]]
               /\ written' = [Overlapped(written) EXCEPT ![u].seq = ~Busy]
               /\ reply' = reply
    /\ UNCHANGED <<_cache, max_len, ignore_kwargs, tasks, overtaken, invalidated, ret,
                   scen, lastSet, db>>

\* The database runs the INSERT ... ON CONFLICT (id) DO UPDATE of a suspended
\* command.
DbWrite(i) ==
    /\ cmds[i].op = "set" /\ cmds[i].pc = "execute"
    /\ db' = [db EXCEPT ![cmds[i].u] = <<[id |-> cmds[i].u, theme |-> cmds[i].id]>>]
    /\ written' = [written EXCEPT ![cmds[i].u].theme = cmds[i].theme]
    /\ cmds' = [cmds EXCEPT ![i].pc = "executed"]
    /\ UNCHANGED <<_cache, max_len, ignore_kwargs, tasks, overtaken, invalidated, ret,
                   scen, lastSet, reply>>

\* Mutant of SetResume: the command does not invalidate the user's entry.
SetResume_without_invalidate(i) ==
    /\ cmds[i].op = "set" /\ cmds[i].pc = "executed"
    /\ reply' = [NoReply EXCEPT !.op = "set", !.u = cmds[i].u, !.theme = cmds[i].theme]
    /\ written' = [written EXCEPT ![cmds[i].u].dropped = FALSE]
    /\ cmds' = [cmds EXCEPT ![i] = IdleCmd]
    /\ UNCHANGED <<_cache, max_len, ignore_kwargs, tasks, overtaken, invalidated, ret,
                   scen, lastSet, db>>

\* execute returns: the command invalidates the user's entry and sends its
\* reply.
SetResume(i) ==
    /\ cmds[i].op = "set" /\ cmds[i].pc = "executed"
    /\ LET u == cmds[i].u
       IN /\ Invalidate(FetchConfig, <<Self, IntV(u)>>, <<>>)
          /\ reply' = [NoReply EXCEPT !.op = "set", !.u = u, !.theme = cmds[i].theme]
          /\ written' = [written EXCEPT
                            ![u].dropped = HasKey(_cache[FetchConfig], UserKey(u))]
    /\ cmds' = [cmds EXCEPT ![i] = IdleCmd]
    /\ db' = db

ViewStartStep ==
    /\ UNCHANGED <<tvars, mvars>>
    /\ \E i \in Slots, u \in Users : ViewStart(i, u)

DbReadStep ==
    /\ UNCHANGED <<tvars, mvars>>
    /\ \E i \in Slots : DbRead(i)

ViewResumeStep ==
    /\ UNCHANGED <<tvars, mvars>>
    /\ \E i \in Slots : ViewResume(i)

SetStartStep ==
    /\ UNCHANGED <<tvars, mvars>>
    /\ \E i \in Slots, u \in Users, arg \in ThemeArgs : SetStart(i, u, arg)

DbWriteStep ==
    /\ UNCHANGED <<tvars, mvars>>
    /\ \E i \in Slots : DbWrite(i)

SetResumeStep ==
    /\ UNCHANGED <<tvars, mvars>>
    /\ \E i \in Slots : SetResume(i)

NextSettings ==
    \/ ViewStartStep
    \/ DbReadStep
    \/ ViewResumeStep
    \/ SetStartStep
    \/ DbWriteStep
    \/ SetResumeStep

SpecSettings == InitSettings /\ [][NextSettings]_vars

\* ------------------------------------------------------ the Tracking cog --

\* How many records the handlers append in all.
MaxRecords == 2

\* The batches in the order bulk_insert takes them.
Batches == <<"avatar", "name", "nick", "presence">>

\* The members, and the user, the names, avatar keys, nicks and statuses of
\* the events.
TrackUsers == {1, 2}

UpdatedUsers == {1}

UserNames == {"ann", "bob"}

AvatarKeys == {None, "h1"}

Nicks == {None, "nick"}

Statuses == {"online", "idle"}

\* A change record: the user, the name, hash, nick or status it records, and
\* the number it has among the records appended to its batch (history).
Record(u, v, n) == [user_id |-> u, v |-> v, n |-> n]

\* The cache variables, which the Tracking cog leaves alone.
cvars == <<_cache, max_len, ignore_kwargs, tasks, overtaken, invalidated, ret, scen, lastSet>>

\* list.append on a batch, or nothing when the handler's condition is false.
Appended(b, add, u, v) ==
    IF add THEN Append(_batch[b], Record(u, v, made[b].n + 1)) ELSE _batch[b]

Made(b, add) ==
    IF add THEN [n |-> made[b].n + 1, early |-> made[b].early + (IF db_ready THEN 0 ELSE 1)]
    ELSE made[b]

\* The records appended so far and those the suspended handlers are to append.
TotalMade ==
    LET RECURSIVE sum(_)
        sum(i) == IF i = 0 THEN 0 ELSE made[Batches[i]].n + sum(i - 1)
    IN sum(Len(Batches)) + Len(saves)

Room(add1, add2) ==
    TotalMade + (IF add1 THEN 1 ELSE 0) + (IF add2 THEN 1 ELSE 0) <= MaxRecords

\* The cog is loaded: the batches are empty and bulk_insert_loop is started,
\* waiting in its before_loop; nothing is decorated.
InitTracking ==
    /\ _cache = [g \in {} |-> <<>>]
    /\ max_len = [g \in {} |-> 0]
    /\ ignore_kwargs = [g \in {} |-> FALSE]
    /\ tasks = [g \in {} |-> <<>>]
    /\ overtaken = [g \in {} |-> <<>>]
    /\ invalidated = [g \in {} |-> <<>>]
    /\ scen = [g \in {} |-> Fresh]
    /\ lastSet = [g \in {} |-> <<>>]
    /\ ret = NoRet
    /\ NoSettings
    /\ _batch = [b \in {Batches[i] : i \in 1..Len(Batches)} |-> <<>>]
    /\ saves = <<>>
    /\ tables = [b \in {Batches[i] : i \in 1..Len(Batches)} |-> <<>>]
    /\ loop = [pc |-> "before_loop", at |-> 0, sent |-> <<>>, first |-> TRUE,
               failedAt |-> 0, kept |-> {}]
    /\ db_ready = FALSE
    /\ made = [b \in {Batches[i] : i \in 1..Len(Batches)} |-> [n |-> 0, early |-> 0]]
    /\ NoMonth

\* on_user_update(before, after): the name is appended at once; when the
\* avatar changed the handler is suspended while the image is saved.
on_user_update ==
    /\ \E u \in UpdatedUsers, bname \in UserNames, aname \in UserNames :
       \E bkey \in AvatarKeys, akey \in AvatarKeys :
          /\ Room(bname # aname, bkey # akey)
          /\ _batch' = [_batch EXCEPT !["name"] = Appended("name", bname # aname, u, aname)]
          /\ made' = [made EXCEPT !["name"] = Made("name", bname # aname)]
          /\ saves' = IF bkey # akey THEN Append(saves, [user_id |-> u, hash |-> akey])
                      ELSE saves
    /\ UNCHANGED <<cvars, svars, mvars, tables, loop, db_ready>>

\* The image is saved and the suspended on_user_update appends the avatar
\* record, or the save raises and the handler ends.
on_user_update_resume ==
    /\ \E i \in 1..Len(saves), ok \in BOOLEAN :
          /\ _batch' = [_batch EXCEPT
                           !["avatar"] = Appended("avatar", ok, saves[i].user_id, saves[i].hash)]
          /\ made' = [made EXCEPT !["avatar"] = Made("avatar", ok)]
          /\ saves' = SubSeq(saves, 1, i - 1) \o SubSeq(saves, i + 1, Len(saves))
    /\ UNCHANGED <<cvars, svars, mvars, tables, loop, db_ready>>

\* Mutant of on_member_update: the presence is appended whenever the status
\* changed, whatever the batch holds.
on_member_update_unchecked ==
    /\ \E u \in TrackUsers, bnick \in Nicks, anick \in Nicks :
       \E bstatus \in Statuses, astatus \in Statuses :
          LET nick == anick # None /\ bnick # anick
              presence == bstatus # astatus
          IN /\ Room(nick, presence)
             /\ _batch' = [_batch EXCEPT
                              !["nick"] = Appended("nick", nick, u, anick),
                              !["presence"] = Appended("presence", presence, u, astatus)]
             /\ made' = [made EXCEPT !["nick"] = Made("nick", nick),
                                     !["presence"] = Made("presence", presence)]
    /\ UNCHANGED <<cvars, svars, mvars, saves, tables, loop, db_ready>>

\* on_member_update(before, after)
on_member_update ==
    /\ \E u \in TrackUsers, bnick \in Nicks, anick \in Nicks :
       \E bstatus \in Statuses, astatus \in Statuses :
          LET nick == anick # None /\ bnick # anick
              presences == SelectSeq(_batch["presence"], LAMBDA r : r.user_id = u)
              presence == /\ presences = <<>> \/ presences[Len(presences)].v # astatus
                          /\ bstatus # astatus
          IN /\ Room(nick, presence)
             /\ _batch' = [_batch EXCEPT
                              !["nick"] = Appended("nick", nick, u, anick),
                              !["presence"] = Appended("presence", presence, u, astatus)]
             /\ made' = [made EXCEPT !["nick"] = Made("nick", nick),
                                     !["presence"] = Made("presence", presence)]
    /\ UNCHANGED <<cvars, svars, mvars, saves, tables, loop, db_ready>>

\* bot.on_ready reaches its end: db_ready.set()
on_ready ==
    /\ ~db_ready
    /\ db_ready' = TRUE
    /\ UNCHANGED <<cvars, svars, mvars, _batch, saves, tables, loop, made>>

\* Mutant of before_bulk_insert_loop: the loop does not wait for db_ready.
before_bulk_insert_loop_no_wait ==
    /\ loop.pc = "before_loop"
    /\ loop' = [loop EXCEPT !.pc = "pass", !.at = 1]
    /\ UNCHANGED <<cvars, svars, mvars, _batch, saves, tables, db_ready, made>>

\* before_bulk_insert_loop returns once db_ready is set, and the first pass of
\* bulk_insert_loop begins.
before_bulk_insert_loop ==
    /\ loop.pc = "before_loop"
    /\ db_ready
    /\ loop' = [loop EXCEPT !.pc = "pass", !.at = 1]
    /\ UNCHANGED <<cvars, svars, mvars, _batch, saves, tables, db_ready, made>>

\* bulk_insert up to its next await: empty batches are passed over, a batch
\* with records is handed to execute, and after the last batch the loop
\* sleeps until its next pass.
bulk_insert ==
    /\ loop.pc = "pass"
    /\ loop' = IF loop.at > Len(Batches)
               THEN [loop EXCEPT !.pc = "sleep", !.at = 0, !.first = FALSE]
               ELSE IF _batch[Batches[loop.at]] = <<>> THEN [loop EXCEPT !.at = @ + 1]
               ELSE [loop EXCEPT !.pc = "execute"]
    /\ UNCHANGED <<cvars, svars, mvars, _batch, saves, tables, db_ready, made>>

\* execute binds its argument: the list is encoded as it is at that moment,
\* some time into the await.
execute_bind ==
    /\ loop.pc = "execute"
    /\ loop' = [loop EXCEPT !.pc = "bound", !.sent = _batch[Batches[loop.at]]]
    /\ UNCHANGED <<cvars, svars, mvars, _batch, saves, tables, db_ready, made>>

\* execute returns: the rows are inserted, and bulk_insert clears the batch
\* and goes on to the next.
execute_done ==
    /\ loop.pc = "bound"
    /\ tables' = [tables EXCEPT ![Batches[loop.at]] = @ \o loop.sent]
    /\ _batch' = [_batch EXCEPT ![Batches[loop.at]] = <<>>]
    /\ loop' = [loop EXCEPT !.pc = "pass", !.at = @ + 1, !.sent = <<>>]
    /\ UNCHANGED <<cvars, svars, mvars, saves, db_ready, made>>

\* The batches that hold records.
Filled == {b \in DOMAIN _batch : _batch[b] # <<>>}

\* Mutant of execute_raises: the batch is cleared although execute raised.
execute_raises_and_clears ==
    /\ loop.pc \in {"execute", "bound"}
    /\ \E retry \in BOOLEAN :
          loop' = [loop EXCEPT !.pc = IF retry THEN "sleep" ELSE "failed", !.at = 0,
                               !.sent = <<>>, !.first = FALSE, !.failedAt = loop.at,
                               !.kept = Filled]
    /\ _batch' = [_batch EXCEPT ![Batches[loop.at]] = <<>>]
    /\ UNCHANGED <<cvars, svars, mvars, saves, tables, db_ready, made>>

\* execute raises and nothing is inserted: bulk_insert ends there.  After a
\* PostgresConnectionError the loop backs off and runs again, after another
\* exception it ends.
execute_raises ==
    /\ loop.pc \in {"execute", "bound"}
    /\ \E retry \in BOOLEAN :
          loop' = [loop EXCEPT !.pc = IF retry THEN "sleep" ELSE "failed", !.at = 0,
                               !.sent = <<>>, !.first = FALSE, !.failedAt = loop.at,
                               !.kept = Filled]
    /\ UNCHANGED <<cvars, svars, mvars, _batch, saves, tables, db_ready, made>>

\* The loop's sleep ends and its next pass begins.
bulk_insert_loop ==
    /\ loop.pc = "sleep"
    /\ loop' = [loop EXCEPT !.pc = "pass", !.at = 1]
    /\ UNCHANGED <<cvars, svars, mvars, _batch, saves, tables, db_ready, made>>

NextTracking ==
    \/ on_user_update
    \/ on_user_update_resume
    \/ on_member_update
    \/ on_ready
    \/ before_bulk_insert_loop
    \/ bulk_insert
    \/ execute_bind
    \/ execute_done
    \/ execute_raises
    \/ bulk_insert_loop

SpecTracking == InitTracking /\ [][NextTracking]_vars

\* ----------------------------------------------------- MonthConverter --

\* How many characters the numeric arguments have at most.
MaxDigits == 2

\* str.isdigit: at least one character, and every character a digit, decimal
\* or not.
isdigit(arg) ==
    /\ arg # <<>>
    /\ \A i \in 1..Len(arg) : arg[i] \in {Digits[d] : d \in 1..Len(Digits)} \cup {"²"}

\* Whether int(arg) returns for an arg that isdigit accepts: a superscript
\* digit is a digit to str.isdigit and an invalid literal to int.
int_reads(arg) == \A i \in 1..Len(arg) : arg[i] # "²"

\* int(arg) of decimal digits
RECURSIVE int(_)
int(arg) ==
    IF arg = <<>> THEN 0
    ELSE 10 * int(SubSeq(arg, 1, Len(arg) - 1))
         + (CHOOSE d \in 0..9 : Digits[d + 1] = arg[Len(arg)])

months_mapping ==
    (<<"J", "a", "n">> :> 1) @@
    (<<"J", "a", "n", "u", "a", "r", "y">> :> 1) @@
    (<<"F", "e", "b">> :> 2) @@
    (<<"F", "e", "b", "r", "u", "r", "a", "r", "y">> :> 3) @@
    (<<"M", "a", "r">> :> 3) @@
    (<<"M", "a", "r", "c", "h">> :> 3) @@
    (<<"A", "p", "r">> :> 4) @@
    (<<"A", "p", "r", "i", "l">> :> 4) @@
    (<<"M", "a", "y">> :> 5) @@
    (<<"J", "u", "n">> :> 6) @@
    (<<"J", "u", "n", "e">> :> 6) @@
    (<<"J", "u", "l">> :> 7) @@
    (<<"J", "u", "l", "y">> :> 7) @@
    (<<"A", "u", "g">> :> 8) @@
    (<<"A", "u", "g", "u", "s", "t">> :> 8) @@
    (<<"S", "e", "p">> :> 9) @@
    (<<"S", "e", "p", "t", "e", "m", "b", "e", "r">> :> 9) @@
    (<<"O", "c", "t">> :> 10) @@
    (<<"O", "c", "t", "o", "b", "e", "r">> :> 10) @@
    (<<"N", "o", "v">> :> 11) @@
    (<<"N", "o", "v", "e", "m", "b", "e", "r">> :> 11) @@
    (<<"D", "e", "c">> :> 12) @@
    (<<"D", "e", "c", "e", "m", "b", "e", "r">> :> 12)

\* What convert returns, or what it raises.
Returned(month) == [month |-> month, raised |-> "None", message |-> ""]

Raised(exception, message) == [month |-> 0, raised |-> exception, message |-> message]

\* MonthConverter.convert(ctx, arg)
MonthConverter_convert(arg) ==
    IF isdigit(arg) THEN
        IF ~int_reads(arg) THEN Raised("ValueError", "invalid literal")
        ELSE IF int(arg) > 0 /\ int(arg) < 12 THEN Returned(int(arg))
        ELSE Raised("BadArgument", "out of range")
    ELSE IF arg \in DOMAIN months_mapping THEN Returned(months_mapping[arg])
    ELSE Raised("BadArgument", "not recognized")

\* The English month names in calendar order.
MonthNames ==
    <<<<"J", "a", "n", "u", "a", "r", "y">>,
      <<"F", "e", "b", "r", "u", "a", "r", "y">>,
      <<"M", "a", "r", "c", "h">>,
      <<"A", "p", "r", "i", "l">>,
      <<"M", "a", "y">>,
      <<"J", "u", "n", "e">>,
      <<"J", "u", "l", "y">>,
      <<"A", "u", "g", "u", "s", "t">>,
      <<"S", "e", "p", "t", "e", "m", "b", "e", "r">>,
      <<"O", "c", "t", "o", "b", "e", "r">>,
      <<"N", "o", "v", "e", "m", "b", "e", "r">>,
      <<"D", "e", "c", "e", "m", "b", "e", "r">>>>

\* The arguments tried: every string of up to MaxDigits digits, every key of
\* months_mapping, every English month name and its first three letters, and
\* some strings that are neither.
NumberArgs ==
    UNION {[1..n -> {Digits[d] : d \in 1..Len(Digits)}] : n \in 1..MaxDigits}

AbbreviationArgs == {SubSeq(MonthNames[m], 1, 3) : m \in 1..Len(MonthNames)}

OtherArgs ==
    {<<>>,
     <<"j", "a", "n">>,
     <<"J", "A", "N">>,
     <<"d", "e", "c", "e", "m", "b", "e", "r">>,
     <<"S", "e", "p", "t">>,
     <<"F", "e", "b", "r">>,
     <<"-", "1">>,
     <<"1", ".", "0">>,
     <<" ", "1">>,
     <<"²">>,
     <<"1", "²">>,
     <<"o", "n", "e">>}

MonthArgs ==
    NumberArgs \cup DOMAIN months_mapping \cup {MonthNames[m] : m \in 1..Len(MonthNames)}
    \cup AbbreviationArgs \cup OtherArgs

\* A command is invoked with a month argument.
InitMonth ==
    /\ _cache = [g \in {} |-> <<>>]
    /\ max_len = [g \in {} |-> 0]
    /\ ignore_kwargs = [g \in {} |-> FALSE]
    /\ tasks = [g \in {} |-> <<>>]
    /\ overtaken = [g \in {} |-> <<>>]
    /\ invalidated = [g \in {} |-> <<>>]
    /\ scen = [g \in {} |-> Fresh]
    /\ lastSet = [g \in {} |-> <<>>]
    /\ ret = NoRet
    /\ NoSettings
    /\ NoTracking
    /\ \E arg \in MonthArgs : converted = [pc |-> "called", arg |-> arg, out |-> Returned(0)]

\* The converter runs on the argument.
convert ==
    /\ converted.pc = "called"
    /\ converted' = [converted EXCEPT !.pc = "converted", !.out = MonthConverter_convert(converted.arg)]
    /\ UNCHANGED <<cvars, svars, tvars>>

NextMonth ==
    \/ convert

SpecMonth == InitMonth /\ [][NextMonth]_vars

\* ------------------------------------------ what the claims are stated in --

\* The value held for a present key.
Lookup(c, k) == (CHOOSE e \in {c[i] : i \in 1..Len(c)} : e.k = k).v

\* c without the items whose key is in K, the rest in their order.
Without(c, K) == SelectSeq(c, LAMBDA e : e.k \notin K)

\* s is a literal substring of k: some prefix of k is followed by s.
IsSubstring(s, k) ==
    \E a \in 0..Len(k) :
        /\ a + Len(s) <= Len(k)
        /\ \A i \in 1..Len(s) : k[a + i] = s[i]

IsSync(f) == ~iscoroutinefunction(f)

\* C1: in every reachable state, whatever calls, completions of asynchronous
\* misses and invalidations came before, each cache holds at most max_len
\* entries.
C1_SizeAtMostMaxLen == \A f \in DOMAIN _cache : Len(_cache[f]) <= max_len[f]

\* An asynchronous miss completed into a full cache and ended an insert-only
\* run of max_len + 1 keys: the cache is still at max_len.
C1_Witness ==
    \E f \in DOMAIN _cache :
        /\ ret.op = "await" /\ ret.raised = None
        /\ scen[f].ph = "done3"
        /\ Len(_cache[f]) = max_len[f]

\* C2: a call of a wrapped plain def invokes the underlying function once when
\* the resolved key is absent, stores what it returned under that key and
\* returns it; invokes it not at all when the key is present and returns the
\* stored value; and no KeyError leaves the wrapper.  Stated of the call that
\* just happened (ret) and of every call the reached state allows.
C2_SyncCallInvokesOnceOnMiss ==
    \A f \in DOMAIN _cache : IsSync(f) =>
        /\ \A x \in Args, o \in Values \cup {Raise} :
              LET c == _cache[f]
                  key == KeyOf(f, x)
                  r == wrapper(f, c, max_len[f], <<IntV(x)>>, <<>>, o)
              IN /\ r.raised # "KeyError"
                 /\ ~r.ret.awaitable
                 /\ HasKey(c, key) =>
                       /\ r.invoked = 0
                       /\ r.raised = None
                       /\ r.ret.val = Lookup(c, key)
                       /\ KeysIn(r.cache) = KeysIn(c)
                 /\ ~HasKey(c, key) =>
                       /\ r.invoked = 1
                       /\ o \in Values =>
                             /\ r.raised = None
                             /\ r.ret.val = o
                             /\ HasKey(r.cache, key)
                             /\ Lookup(r.cache, key) = o
        /\ (ret.op = "call" /\ ret.f = f) =>
              /\ ret.raised # "KeyError"
              /\ (ret.invoked = 1 /\ ret.raised = None) =>
                    /\ HasKey(_cache[f], ret.key)
                    /\ Lookup(_cache[f], ret.key) = ret.val
              /\ ret.invoked = 0 =>
                    /\ HasKey(_cache[f], ret.key)
                    /\ Lookup(_cache[f], ret.key) = ret.val

\* A call of the plain def was a hit: the stored value came back and the
\* underlying function was not invoked.
C2_Witness ==
    /\ ret.op = "call" /\ IsSync(ret.f)
    /\ ret.invoked = 0
    /\ ret.val \in Values

\* C3: with capacity N = max_len, after N + 1 distinct keys k1..k(N+1) were
\* inserted in that order into the empty cache with no read in between, k1 is
\* absent and k2..k(N+1) are present; and in every reachable state with the
\* cache full, setting a new key removes exactly the oldest entry (the head)
\* and adds the new one at the end, the others keeping order and value.
C3_InsertEvictsLeastRecent ==
    \A f \in DOMAIN _cache :
        LET c == _cache[f]
            N == max_len[f]
            ks == scen[f].ks
        IN /\ scen[f].ph = "done3" =>
                 /\ Len(ks) = N + 1
                 /\ ~HasKey(c, ks[1])
                 /\ \A i \in 2..(N + 1) : HasKey(c, ks[i])
           /\ Len(c) = N =>
                 \A x \in Args, v \in Values :
                     ~HasKey(c, KeyOf(f, x)) =>
                         LRUDict_setitem(c, N, KeyOf(f, x), v)
                             = Tail(c) \o <<[k |-> KeyOf(f, x), v |-> v]>>

\* A plain def with max_len 2 was called with three distinct arguments in a
\* row, from the empty cache.
C3_Witness ==
    \E f \in DOMAIN _cache :
        /\ IsSync(f) /\ max_len[f] = 2
        /\ ret.op = "call" /\ ret.invoked = 1
        /\ scen[f].ph = "done3" /\ Len(scen[f].ks) = 3

\* C4 as stated, for every capacity N >= 1: after k1..kN were inserted, k1 was
\* read and a new key was inserted, k1 is present and k2 is absent.
C4_ReadKeepsFirstKey ==
    \A f \in DOMAIN _cache :
        scen[f].ph = "done4" =>
            /\ HasKey(_cache[f], scen[f].ks[1])
            /\ ~HasKey(_cache[f], scen[f].ks[2])

\* C4, amended to capacity N >= 2: after k1..kN were inserted, k1 was read and a
\* new key k(N+1) was inserted, k1 is present, k2 is the one entry evicted and
\* k3..k(N+1) are present.  In every reachable state a successful read of a
\* key, by LRUDict.__getitem__ or by a hit of the wrapper, moves that entry to
\* the end and leaves the others in their order; and after a hit (ret) the key
\* read is the last entry.
C4_ReadMakesMostRecent ==
    \A f \in DOMAIN _cache :
        LET c == _cache[f]
            N == max_len[f]
            ks == scen[f].ks
        IN /\ (scen[f].ph = "done4" /\ N >= 2) =>
                 /\ HasKey(c, ks[1])
                 /\ ~HasKey(c, ks[2])
                 /\ \A i \in 3..(N + 1) : HasKey(c, ks[i])
           /\ \A x \in Args :
                 LET key == KeyOf(f, x) IN
                 HasKey(c, key) =>
                     LET moved == Without(c, {key}) \o <<[k |-> key, v |-> Lookup(c, key)]>>
                     IN /\ LRUDict_getitem(c, key).cache = moved
                        /\ wrapper(f, c, N, <<IntV(x)>>, <<>>, Raise).cache = moved
           /\ (ret.op = "call" /\ ret.f = f /\ ret.invoked = 0) =>
                 c[Len(c)].k = ret.key

\* With max_len 2 or more: k1..kN inserted, k1 read, a new key inserted.
C4_Witness ==
    \E f \in DOMAIN _cache :
        /\ max_len[f] >= 2
        /\ scen[f].ph = "done4"
        /\ Len(_cache[f]) = max_len[f]

\* C5: a key that was set and has since been neither evicted nor deleted reads
\* as the value of the most recent set for it: LRUDict.__getitem__ returns it
\* in every reachable state, and the hit that just happened (ret) returned it.
C5_ReadReturnsLastSet ==
    \A f \in DOMAIN _cache :
        /\ \A k \in Keys :
              /\ HasKey(_cache[f], k) => lastSet[f][k] # Unset
              /\ lastSet[f][k] # Unset =>
                    /\ LRUDict_getitem(_cache[f], k).raised = None
                    /\ LRUDict_getitem(_cache[f], k).val = lastSet[f][k]
        /\ (ret.op = "call" /\ ret.f = f /\ ret.invoked = 0) =>
              ret.val = lastSet[f][ret.key]

\* An asynchronous miss completed with "b" for a key the cache already held:
\* the key was set again, and reads as "b".
C5_Witness ==
    \E f \in DOMAIN _cache :
        /\ ret.op = "await" /\ ret.raised = None /\ ret.val = "b"
        /\ ret.had
        /\ lastSet[f][ret.key] = "b"
        /\ LRUDict_getitem(_cache[f], ret.key).val = "b"

\* C6: invalidate(x), with an argument, returns True exactly when the cache
\* holds the resolved key, removes that entry and no other (the rest keep
\* order and value), raises nothing when the key is absent, and called again
\* at once with the same argument returns False.  Stated of every such call
\* the reached state allows and of the one that just happened (ret).
C6_InvalidateReportsPresence ==
    \A f \in DOMAIN _cache :
        /\ \A x \in Args :
              LET c == _cache[f]
                  key == KeyOf(f, x)
                  r == invalidate(f, c, <<IntV(x)>>, <<>>)
                  again == invalidate(f, r.cache, <<IntV(x)>>, <<>>)
              IN /\ r.raised = None
                 /\ r.val = (IF HasKey(c, key) THEN True ELSE False)
                 /\ r.cache = Without(c, {key})
                 /\ again.val = False /\ again.raised = None /\ again.cache = r.cache
        /\ (ret.op = "invalidate" /\ ret.f = f /\ ret.key # <<>>) =>
              /\ ret.raised = None
              /\ ret.val = (IF ret.had THEN True ELSE False)
              /\ ret.removed = (IF ret.had THEN 1 ELSE 0)
              /\ ~HasKey(_cache[f], ret.key)

\* invalidate(x) removed the entry of x, returned True and left another entry.
C6_Witness ==
    \E f \in DOMAIN _cache :
        /\ ret.op = "invalidate" /\ ret.key # <<>>
        /\ ret.had /\ ret.val = True /\ ret.removed = 1
        /\ Len(_cache[f]) >= 1

\* C7: invalidate() leaves the cache empty and returns True, on an empty cache
\* as on any other; called twice in a row it does so both times, raising
\* nothing; and a call that follows at once, with arguments that were cached
\* before, is a miss that invokes the underlying function.
C7_InvalidateAllEmpties ==
    \A f \in DOMAIN _cache :
        /\ LET c == _cache[f]
               r == invalidate(f, c, <<>>, <<>>)
               again == invalidate(f, r.cache, <<>>, <<>>)
           IN /\ r.cache = <<>> /\ r.val = True /\ r.raised = None
              /\ again.cache = <<>> /\ again.val = True /\ again.raised = None
              /\ \A x \in Args, o \in Values \cup {Raise} :
                    HasKey(c, KeyOf(f, x)) =>
                        wrapper(f, r.cache, max_len[f], <<IntV(x)>>, <<>>, o).invoked = 1
        /\ (ret.op = "invalidate" /\ ret.f = f /\ ret.key = <<>>) =>
              /\ _cache[f] = <<>>
              /\ ret.val = True /\ ret.raised = None

\* invalidate() emptied a cache that held two entries or more.
C7_Witness ==
    \E f \in DOMAIN _cache :
        /\ ret.op = "invalidate" /\ ret.key = <<>>
        /\ ret.removed >= 2 /\ ret.val = True
        /\ _cache[f] = <<>>

Key_mod_fn_1 == <<"m", "o", "d", ".", "f", "n", ":", "1">>

Key_mod_fn_2 == <<"m", "o", "d", ".", "f", "n", ":", "2">>

Key_mod_fn_10 == <<"m", "o", "d", ".", "f", "n", ":", "1", "0">>

\* C8: invalidate_containing(s) removes exactly the entries whose key has s as
\* a literal substring and leaves every other entry, in its place and with its
\* value; with the keys "mod.fn:1", "mod.fn:2", "mod.fn:10" and s = "1" it
\* removes the first and the third and keeps the second.  Stated of every such
\* call the reached state allows and of the one that just happened (ret).
C8_InvalidateContainingRemovesMatches ==
    \A f \in DOMAIN _cache :
        /\ \A s \in Substrings :
              LET c == _cache[f]
                  r == invalidate_containing(c, s)
              IN /\ r.raised = None
                 /\ r.cache = SelectSeq(c, LAMBDA e : ~IsSubstring(s, e.k))
        /\ KeysIn(_cache[f]) = {Key_mod_fn_1, Key_mod_fn_2, Key_mod_fn_10} =>
              KeysIn(invalidate_containing(_cache[f], <<"1">>).cache) = {Key_mod_fn_2}
        /\ (ret.op = "invalidate_containing" /\ ret.f = f) =>
              \A i \in 1..Len(_cache[f]) : ~IsSubstring(ret.key, _cache[f][i].k)

\* invalidate_containing("1") on the keys "mod.fn:1", "mod.fn:2", "mod.fn:10"
\* removed two entries and kept "mod.fn:2".
C8_Witness ==
    \E f \in DOMAIN _cache :
        /\ ret.op = "invalidate_containing" /\ ret.key = <<"1">>
        /\ ret.removed = 2
        /\ KeysIn(_cache[f]) = {Key_mod_fn_2}
        /\ lastSet[f][Key_mod_fn_2] \in Values

\* C9: every call of a wrapped async def returns an awaitable, on a hit as on a
\* miss; on a hit the awaitable resolves to the cached value and the
\* underlying function is not invoked.  Stated of every call the reached state
\* allows and of the one that just happened (ret).
C9_AsyncCallReturnsAwaitable ==
    \A f \in DOMAIN _cache : iscoroutinefunction(f) =>
        /\ \A x \in Args, o \in Values \cup {Raise} :
              LET c == _cache[f]
                  key == KeyOf(f, x)
                  r == wrapper(f, c, max_len[f], <<IntV(x)>>, <<>>, o)
              IN /\ r.ret.awaitable
                 /\ r.raised = None
                 /\ HasKey(c, key) =>
                       /\ r.invoked = 0
                       /\ r.pending = <<>>
                       /\ r.ret.val = Lookup(c, key)
        /\ (ret.op = "call" /\ ret.f = f) =>
              /\ ret.awaitable
              /\ ret.had => (ret.invoked = 0 /\ ret.val = Lookup(_cache[f], ret.key))

\* A call of the async def was a hit: an awaitable of the cached value.
C9_Witness ==
    /\ ret.op = "call" /\ iscoroutinefunction(ret.f)
    /\ ret.had /\ ret.invoked = 0
    /\ ret.awaitable /\ ret.val \in Values

\* In a state: a miss of the async def leaves the cache as it was and returns
\* the coroutine of the resolved key, and each coroutine in flight, awaited to
\* a value, stores that value under its key and returns it.
C10_MissStoresOnCompletion ==
    \A f \in DOMAIN _cache : iscoroutinefunction(f) =>
        /\ \A x \in Args, o \in Values \cup {Raise} :
              LET c == _cache[f]
                  key == KeyOf(f, x)
                  r == wrapper(f, c, max_len[f], <<IntV(x)>>, <<>>, o)
              IN ~HasKey(c, key) =>
                    /\ r.cache = c
                    /\ r.pending = <<key>>
                    /\ r.invoked = 1
        /\ \A k \in Keys, v \in Values :
              tasks[f][k] > 0 =>
                  LET r == _prepare_coro(_cache[f], max_len[f], k, v)
                  IN /\ HasKey(r.cache, k) /\ Lookup(r.cache, k) = v
                     /\ r.val = v /\ r.raised = None
        /\ (ret.op = "call" /\ ret.f = f /\ ret.invoked = 1) => ~HasKey(_cache[f], ret.key)
        /\ (ret.op = "await" /\ ret.f = f /\ ret.raised = None) =>
              /\ HasKey(_cache[f], ret.key)
              /\ Lookup(_cache[f], ret.key) = ret.val

\* In a step: the cache of the async def gains an entry, or an entry a new
\* value, only by the successful completion of a coroutine that was in flight
\* for that key, and the value is the one the completion returned.
C10_StoredOnlyByCompletion ==
    \A f \in DOMAIN _cache : iscoroutinefunction(f) =>
        \A k \in Keys :
            (/\ HasKey(_cache'[f], k)
             /\ ~HasKey(_cache[f], k) \/ Lookup(_cache[f], k) # Lookup(_cache'[f], k))
            => /\ ret'.op = "await" /\ ret'.raised = None
               /\ ret'.key = k /\ ret'.val = Lookup(_cache'[f], k)
               /\ tasks[f][k] > 0 /\ tasks'[f][k] = tasks[f][k] - 1

\* C10: on a miss of a wrapped async def nothing is stored when the call
\* returns; the result is stored only when the returned awaitable is driven to
\* successful completion, under the key resolved at call time, and the
\* awaitable then yields that same result.
C10_AsyncMissStoresWhenAwaited ==
    [](C10_MissStoresOnCompletion) /\ [][C10_StoredOnlyByCompletion]_vars

\* A coroutine returned on a miss was awaited to a value: the value is in the
\* cache under the key of the call, and another miss is still in flight.
C10_Witness ==
    \E f \in DOMAIN _cache :
        /\ ret.op = "await" /\ ret.raised = None /\ ~ret.had
        /\ Lookup(_cache[f], ret.key) = ret.val
        /\ \E k \in Keys : tasks[f][k] > 0 /\ ~HasKey(_cache[f], k)

\* C11: calls of an async def are not deduplicated: every call that finds its
\* key absent calls func and gets a coroutine of its own, also while other
\* coroutines of the same key are in flight, and a call that finds the key
\* does not call func; so func has been called once for each call that found
\* the key absent.
C11_MissInvokes ==
    ret.op = "call" /\ isawaitable(ret.f) =>
        /\ ret.invoked = (IF ret.had THEN 0 ELSE 1)
        /\ ~ret.had => ret.awaitable /\ tasks[ret.f][ret.key] >= 1

C11_MissAddsCoroutine ==
    ret'.op = "call" /\ isawaitable(ret'.f) /\ ~ret'.had =>
        tasks' = [tasks EXCEPT ![ret'.f][ret'.key] = @ + 1]

C11_ConcurrentMissesEachInvoke ==
    [](C11_MissInvokes) /\ [][C11_MissAddsCoroutine]_vars

\* Two calls of one key have started and neither has completed.
C11_Witness ==
    /\ ret.op = "call" /\ isawaitable(ret.f)
    /\ ~ret.had /\ ret.invoked = 1
    /\ tasks[ret.f][ret.key] = 2
    /\ ~HasKey(_cache[ret.f], ret.key)

\* C12: when several misses of one key of an async def are in flight, the
\* last of them to complete with a result wins: each completion leaves its own
\* result under the key, whether its call started before or after the calls
\* of the misses that completed earlier, so as long as the key stays in the
\* cache its value is the result of the latest completion.
C12_LastCompletionWins ==
    /\ ret.op = "await" /\ ret.raised = None =>
          /\ HasKey(_cache[ret.f], ret.key)
          /\ Lookup(_cache[ret.f], ret.key) = ret.val
    /\ \A f \in DOMAIN _cache : \A k \in OrderKeys :
          HasKey(_cache[f], k) => Lookup(_cache[f], k) = lastSet[f][k]

\* The miss whose call started first completes last, over the entry a miss
\* that started after it has stored, and no coroutine of the key is left.
C12_Witness ==
    /\ ret.op = "await" /\ ret.raised = None
    /\ ret.late /\ ret.had
    /\ tasks[ret.f][ret.key] = 0
    /\ Lookup(_cache[ret.f], ret.key) = ret.val

\* C13: when func raises on a miss of a plain def, or the awaited coroutine
\* of a miss of an async def fails, the caller gets that error and the cache
\* is as it was: the key stays absent or keeps the value it had, and nothing
\* is stored in its place.
C13_FailureKeepsCache ==
    \A f \in DOMAIN _cache :
        /\ IsSync(f) =>
              \A x \in Args :
                  LET r == wrapper(f, _cache[f], max_len[f], <<IntV(x)>>, <<>>, Raise)
                  IN ~HasKey(_cache[f], KeyOf(f, x)) =>
                        r.raised = "Error" /\ r.cache = _cache[f]
        /\ ~IsSync(f) =>
              \A k \in Keys :
                  LET r == _prepare_coro(_cache[f], max_len[f], k, Raise)
                  IN r.raised = "Error" /\ r.cache = _cache[f]

C13_FailedStepKeepsCache ==
    ret'.raised = "Error" => ret'.op \in {"call", "await"} /\ _cache' = _cache

C13_ErrorReachesCallerCacheUnchanged ==
    [](C13_FailureKeepsCache) /\ [][C13_FailedStepKeepsCache]_vars

\* The awaited coroutine of a miss failed while the key held the result of
\* another miss, and the key still holds a result.
C13_Witness ==
    /\ ret.op = "await" /\ ret.raised = "Error"
    /\ ret.had
    /\ HasKey(_cache[ret.f], ret.key)
    /\ Lookup(_cache[ret.f], ret.key) \in Values

\* C14: a miss of an async def whose coroutine is cancelled before its await
\* returns never writes to the cache.
C14_CancelKeepsCache ==
    \A f \in DOMAIN _cache : \A k \in Keys :
        LET r == _prepare_coro(_cache[f], max_len[f], k, Cancel)
        IN r.raised = "CancelledError" /\ r.cache = _cache[f]

C14_CancelledStepKeepsCache ==
    ret'.raised = "CancelledError" => ret'.op = "await" /\ _cache' = _cache

C14_CancelledMissNeverWrites ==
    [](C14_CancelKeepsCache) /\ [][C14_CancelledStepKeepsCache]_vars

\* The one coroutine of a key was cancelled and the key is absent.
C14_Witness ==
    /\ ret.op = "await" /\ ret.raised = "CancelledError"
    /\ ~ret.had
    /\ tasks[ret.f][ret.key] = 0
    /\ ~HasKey(_cache[ret.f], ret.key)

\* C15 as stated: the value under a key never changes while the key stays in
\* the cache. The second of two misses of an async def to complete changes it.
C15_NeverMutatedInPlace ==
    [][\A f \in DOMAIN _cache : \A k \in Keys :
          HasKey(_cache[f], k) /\ HasKey(_cache'[f], k) =>
              Lookup(_cache'[f], k) = Lookup(_cache[f], k)]_vars

\* C15: no hit, no invalidation and no call of a plain def changes the value
\* under a key that stays in the cache: the one step that does is the
\* completion, with a result, of a miss of an async def that was in flight
\* for that key while the key was stored.
C15_ChangedInPlace(f, k) ==
    /\ HasKey(_cache[f], k) /\ HasKey(_cache'[f], k)
    /\ Lookup(_cache'[f], k) # Lookup(_cache[f], k)

C15_InPlaceOnlyByLaterCompletion ==
    [][\A f \in DOMAIN _cache : \A k \in Keys :
          C15_ChangedInPlace(f, k) =>
              /\ ~IsSync(f)
              /\ tasks[f][k] > 0
              /\ ret'.op = "await" /\ ret'.f = f /\ ret'.key = k
              /\ ret'.raised = None /\ ret'.had
              /\ Lookup(_cache'[f], k) = ret'.val]_vars

\* A miss has completed on a key that held the result of another miss, and
\* the key holds the result of this one.
C15_Witness ==
    /\ ret.op = "await" /\ ret.raised = None /\ ret.had
    /\ ~IsSync(ret.f)
    /\ Lookup(_cache[ret.f], ret.key) = ret.val
    /\ lastSet[ret.f][ret.key] = ret.val

\* C16: a max_len of 0 or less is refused with ValueError when the function
\* is decorated, and then no wrapper and no cache of it exist; every max_len
\* of 1 or more is accepted and is the capacity of an empty cache; without a
\* max_len the capacity is 128.
C16_MaxLenValidatedAtDecoration ==
    /\ \A f \in Funcs : \A args \in MaxLenArgs \ {<<>>} :
          LET d == decorator(f, args)
          IN /\ args[1] <= 0 => d.raised = "ValueError" /\ ~d.wrapped
             /\ args[1] >= 1 =>
                   d.raised = None /\ d.wrapped /\ d.cache = <<>> /\ d.max_len = args[1]
    /\ \A f \in Funcs : decorator(f, <<>>).wrapped /\ decorator(f, <<>>).max_len = 128
    /\ ret.op = "decorate" =>
          /\ ret.raised = "ValueError" <=> (ret.args # <<>> /\ ret.args[1] <= 0)
          /\ ret.raised = "ValueError" => ret.f \notin DOMAIN _cache
          /\ ret.raised = None =>
                /\ _cache[ret.f] = <<>>
                /\ max_len[ret.f] = (IF ret.args = <<>> THEN 128 ELSE ret.args[1])
    /\ \A f \in DOMAIN _cache : max_len[f] >= 1

\* @cache.cache(0) has raised ValueError and nothing is decorated.
C16_Witness ==
    /\ ret.op = "decorate" /\ ret.args = <<0>>
    /\ ret.raised = "ValueError"
    /\ DOMAIN _cache = {}

\* C17: get_key, the wrapped call and invalidate resolve the same key for the
\* same arguments: a call that returns f(args) stores its entry under
\* get_key(args), a miss of an async def is in flight under get_key(args),
\* and invalidate(args) then removes that entry and no other and returns
\* True; every operation's key is the one get_key gives for its arguments.
C17_OneKeyResolution ==
    /\ \A f \in DOMAIN _cache : \A x \in KwPos : \A kw \in KwArgs :
          LET args == <<IntV(x)>>
              k == get_key(f, args, kw)
              c == _cache[f]
              r == wrapper(f, c, max_len[f], args, kw, KwResult(kw))
              inv == invalidate(f, r.cache, args, kw)
          IN /\ IsSync(f) =>
                   /\ HasKey(r.cache, k)
                   /\ ~HasKey(c, k) => Lookup(r.cache, k) = KwResult(kw)
                   /\ inv.val = True
                   /\ inv.cache = Without(r.cache, {k})
             /\ (~IsSync(f) /\ ~HasKey(c, k)) => r.pending = <<k>>
             /\ invalidate(f, c, args, kw).val = (IF HasKey(c, k) THEN True ELSE False)
             /\ invalidate(f, c, args, kw).cache = Without(c, {k})
    /\ ret.op \in {"call", "invalidate", "get_key"} =>
          ret.key = get_key(ret.f, ret.args, ret.kwargs)

\* invalidate(1, v=...) has removed the entry a call with those arguments
\* stored, under a key that names the keyword argument, and left another.
C17_Witness ==
    /\ ret.op = "invalidate" /\ ret.kwargs # <<>>
    /\ ~ignore_kwargs[ret.f]
    /\ ret.had /\ ret.val = True /\ ret.removed = 1
    /\ ret.key = get_key(ret.f, ret.args, ret.kwargs)
    /\ ~HasKey(_cache[ret.f], ret.key)
    /\ _cache[ret.f] # <<>>

\* C18: with ignore_kwargs true, two calls with the same positional arguments
\* and different keyword arguments resolve one key and share one entry, so
\* the second is a hit that returns what the first stored; with ignore_kwargs
\* false they resolve different keys, and each is a miss of its own.
C18_IgnoreKwargsSharesEntry ==
    \A f \in DOMAIN _cache : \A x \in KwPos : \A kw1, kw2 \in KwArgs :
        LET args == <<IntV(x)>>
            k1 == get_key(f, args, kw1)
            k2 == get_key(f, args, kw2)
            c == _cache[f]
            r1 == wrapper(f, c, max_len[f], args, kw1, KwResult(kw1))
            r2 == wrapper(f, r1.cache, max_len[f], args, kw2, KwResult(kw2))
        IN kw1 # kw2 =>
              /\ ignore_kwargs[f] =>
                    /\ k1 = k2
                    /\ IsSync(f) =>
                          /\ r2.invoked = 0
                          /\ r2.ret.val = Lookup(r1.cache, k1)
                          /\ r2.ret.val = r1.ret.val
                          /\ Len(r2.cache) = Len(r1.cache)
                    /\ HasKey(c, k1) => r1.invoked = 0 /\ r2.invoked = 0
              /\ ~ignore_kwargs[f] =>
                    /\ k1 # k2
                    /\ (IsSync(f) /\ ~HasKey(c, k2)) =>
                          /\ r2.invoked = 1
                          /\ r2.ret.val = KwResult(kw2)
                          /\ Lookup(r2.cache, k2) = KwResult(kw2)
                    /\ (~IsSync(f) /\ ~HasKey(c, k1) /\ ~HasKey(c, k2)) =>
                          /\ r1.pending = <<k1>> /\ r2.pending = <<k2>>
                          /\ r1.invoked = 1 /\ r2.invoked = 1

\* With ignore_kwargs, fn(1, v=2) is a hit that returns "a", which only a call
\* without v=2 can have stored.
C18_Witness ==
    /\ ret.op = "call" /\ IsSync(ret.f)
    /\ ignore_kwargs[ret.f]
    /\ ret.kwargs # <<>> /\ ret.kwargs[1][2] = IntV(2)
    /\ ret.had /\ ret.invoked = 0
    /\ ret.val = "a"

\* C19 as stated: two different decorated functions never resolve the same
\* key.  fn and the method Other.fn of its module do: the key names
\* __module__ and __name__, which the two share.
C19_DistinctFunctionsDistinctKeys ==
    \A f, g \in DOMAIN _cache :
        f # g => \A x \in TwoArgs(f) :
                     get_key(f, <<IntV(x)>>, <<>>) # get_key(g, <<IntV(x)>>, <<>>)

\* C19: the key names the function by its module and its __name__: two
\* decorated functions that differ in either never resolve the same key,
\* whatever the arguments of each, and two that share both (methods of one
\* name in two classes of a module) resolve the same key for the same
\* arguments.
C19_KeysSharedOnlyBySameName ==
    /\ \A f, g \in DOMAIN _cache : \A x \in TwoArgs(f) : \A y \in TwoArgs(g) :
          LET kf == get_key(f, <<IntV(x)>>, <<>>)
              kg == get_key(g, <<IntV(y)>>, <<>>)
              same == func_module(f) = func_module(g) /\ func_name(f) = func_name(g)
          IN /\ (f # g /\ ~same) => kf # kg
             /\ same => (kf = kg <=> x = y)
    /\ ret.op = "get_key" =>
          \A g \in DOMAIN _cache \ {ret.f} :
              func_name(g) # func_name(ret.f) =>
                  /\ ~HasKey(_cache[g], ret.key)
                  /\ \A y \in TwoArgs(g) : ret.key # get_key(g, <<IntV(y)>>, <<>>)

\* fn.get_key(1) was asked while fetch_config is decorated too and holds an
\* entry for the same user id, under another key.
C19_Witness ==
    /\ ret.op = "get_key" /\ ret.f = "fn" /\ ret.args = <<IntV(1)>>
    /\ "fetch_config" \in DOMAIN _cache
    /\ HasKey(_cache["fetch_config"], get_key("fetch_config", <<IntV(1)>>, <<>>))
    /\ ~HasKey(_cache["fetch_config"], ret.key)

\* C20: each decorated function has a cache of its own: an operation on one
\* function leaves the contents and the order of every other function's cache
\* as they were, also when both resolve the same key strings, so what a
\* cache holds under a key is what its own function last stored there.
C20_OwnEntries ==
    \A f \in DOMAIN _cache : \A k \in TwoKeys :
        IF HasKey(_cache[f], k) THEN Lookup(_cache[f], k) = lastSet[f][k]
        ELSE lastSet[f][k] = Unset

C20_OthersUnchanged ==
    \A g \in DOMAIN _cache : g # ret'.f => _cache'[g] = _cache[g]

C20_EachFunctionOwnsItsCache ==
    [](C20_OwnEntries) /\ [][C20_OthersUnchanged]_vars

\* fn and Other.fn hold two entries each under the same two key strings, with
\* different values under one of them and in a different order.
C20_Witness ==
    /\ OtherFn \in DOMAIN _cache
    /\ Len(_cache["fn"]) = 2 /\ Len(_cache[OtherFn]) = 2
    /\ KeysIn(_cache["fn"]) = KeysIn(_cache[OtherFn])
    /\ _cache["fn"][1].k # _cache[OtherFn][1].k
    /\ Lookup(_cache["fn"], KeyOf("fn", 1)) # Lookup(_cache[OtherFn], KeyOf("fn", 1))

\* C21: an argument whose class defines no __repr__ is in the key as the
\* qualified name of its class and not as the text repr gives it, which names
\* the instance: calls of a decorated method that differ only in the instance
\* resolve one key and share one entry, so that the call on the second
\* instance is a hit that returns what the call on the first stored.
C21_InstancesShareKey ==
    \A f \in DOMAIN _cache : \A x \in SelfArgs : \A s1, s2 \in Selves :
        LET k1 == get_key(f, <<s1, IntV(x)>>, <<>>)
            k2 == get_key(f, <<s2, IntV(x)>>, <<>>)
            c == _cache[f]
            r1 == wrapper(f, c, max_len[f], <<s1, IntV(x)>>, <<>>, SelfResult(s1))
            r2 == wrapper(f, r1.cache, max_len[f], <<s2, IntV(x)>>, <<>>, SelfResult(s2))
        IN /\ k1 = k2
           /\ k1 = func_module(f) \o <<".">> \o func_name(f)
                     \o <<":", "<">> \o SettingsCls \o <<">", ":">> \o IntRepr(x)
           /\ ~str_contains(k1, repr(s1))
           /\ s1 # s2 => repr(s1) # repr(s2)
           /\ IsSync(f) =>
                 /\ r2.invoked = 0
                 /\ r2.ret.val = r1.ret.val
                 /\ Len(r2.cache) = Len(r1.cache)
           /\ HasKey(c, k1) => r1.invoked = 0 /\ r2.invoked = 0

\* The method called on the second instance is a hit that returns "a", which
\* only a call on the first instance can have stored.
C21_Witness ==
    /\ ret.op = "call" /\ IsSync(ret.f)
    /\ ret.args[1] = ObjV(SettingsCls, 2)
    /\ ret.had /\ ret.invoked = 0
    /\ ret.val = "a"

\* C22: the key of timestwo of the module test for the positional arguments
\* ("ex", 2) is exactly test.timestwo:ex:2, whether get_key, a call or
\* invalidate resolves it.  The code resolves test.timestwo:'ex':2, the str
\* in the quotes repr gives it.
C22_DocstringKey ==
    (ret.f = TimesTwo /\ ret.args = <<StrV(<<"e", "x">>), IntV(2)>>) =>
        ret.key = <<"t", "e", "s", "t", ".", "t", "i", "m", "e", "s", "t", "w", "o",
                    ":", "e", "x", ":", "2">>

\* C23 as stated: deleting an absent key from the LRUDict raises nothing and
\* leaves it unchanged.  `del` on an absent key raises KeyError.
C23_DeleteAbsentIsNoOp ==
    \A f \in DOMAIN _cache : \A k \in Keys :
        ~HasKey(_cache[f], k) =>
            /\ od_delitem(_cache[f], k).raised = None
            /\ od_delitem(_cache[f], k).cache = _cache[f]

\* C23: deleting an absent key from the LRUDict leaves it unchanged and raises
\* KeyError; invalidate catches it and returns False, and
\* invalidate_containing deletes only keys it has just found, so through the
\* cache's own operations invalidating an absent key changes nothing and
\* raises nothing.
C23_DeleteAbsentRaisesAndIsCaught ==
    /\ \A f \in DOMAIN _cache :
          /\ \A k \in Keys :
                ~HasKey(_cache[f], k) =>
                    /\ od_delitem(_cache[f], k).raised = "KeyError"
                    /\ od_delitem(_cache[f], k).cache = _cache[f]
          /\ \A x \in Args :
                ~HasKey(_cache[f], KeyOf(f, x)) =>
                    invalidate(f, _cache[f], <<IntV(x)>>, <<>>)
                        = [cache |-> _cache[f], val |-> False, raised |-> None]
          /\ \A s \in Substrings :
                /\ invalidate_containing(_cache[f], s).raised = None
                /\ (\A k \in KeysIn(_cache[f]) : ~str_contains(k, s)) =>
                       invalidate_containing(_cache[f], s).cache = _cache[f]
    /\ ret.op \in {"invalidate", "invalidate_containing"} => ret.raised = None

\* invalidate of a user id that has no entry returned False, raised nothing
\* and removed nothing from a cache that holds other entries.
C23_Witness ==
    /\ ret.op = "invalidate" /\ ret.key # <<>>
    /\ ~ret.had /\ ret.val = False /\ ret.raised = None /\ ret.removed = 0
    /\ _cache[ret.f] # <<>>

\* C27: once invalidate(args) or invalidate() has returned, no coroutine that
\* was in flight for an invalidated key at that time stores its result when it
\* completes, so the cache never serves a value of an invocation that started
\* before the invalidation.
C27_NoReinsertAfterInvalidate ==
    (ret.op = "await" /\ ret.stale) =>
        \/ ret.raised # None
        \/ ~HasKey(_cache[ret.f], ret.key)
        \/ Lookup(_cache[ret.f], ret.key) # ret.val

\* A set of a present key: the other items keep their values and their order,
\* none is deleted, and the key is last with the new value.
C28_Overwritten(c, cNew, k, v) == cNew = Append(Without(c, {k}), [k |-> k, v |-> v])

\* C28: setting a key that is already present overwrites its value, makes it
\* the most recently used and evicts nothing, also when the dict is full; the
\* completion of an async miss whose key an earlier completion has filled is
\* such a set.
C28_SetOfPresentKeyOverwrites ==
    /\ [](\A f \in DOMAIN _cache : \A k \in KeysIn(_cache[f]) : \A v \in Values :
            C28_Overwritten(_cache[f], LRUDict_setitem(_cache[f], max_len[f], k, v), k, v))
    /\ [][(ret'.op = "await" /\ ret'.raised = None /\ ret'.had) =>
            C28_Overwritten(_cache[ret'.f], _cache'[ret'.f], ret'.key, ret'.val)]_vars

\* A completion has stored to a key that was present, in a full dict of more
\* than one item, and changed its value.
C28_Witness ==
    /\ ret.op = "await" /\ ret.raised = None /\ ret.had
    /\ max_len[ret.f] > 1
    /\ Len(_cache[ret.f]) = max_len[ret.f]
    /\ _cache[ret.f][Len(_cache[ret.f])] = [k |-> ret.key, v |-> ret.val]

\* C29: immediately after a set of the LRUDict the key is present with the
\* value that was set, whatever max_len >= 1 is: the item an insertion evicts
\* is never the one just inserted.
C29_SetKeyIsPresent ==
    /\ \A f \in DOMAIN _cache : \A k \in Keys : \A v \in Values :
          LET cNew == LRUDict_setitem(_cache[f], max_len[f], k, v)
          IN HasKey(cNew, k) /\ Lookup(cNew, k) = v
    /\ \/ ret.op = "await" /\ ret.raised = None
       \/ ret.op = "call" /\ ret.invoked = 1 /\ ret.raised = None /\ ~ret.awaitable
       => /\ HasKey(_cache[ret.f], ret.key)
          /\ Lookup(_cache[ret.f], ret.key) = ret.val

\* A dict of max_len 1 was full and a set of another key has evicted its item.
C29_Witness ==
    /\ ret.op \in {"call", "await"} /\ ret.raised = None /\ ~ret.had
    /\ max_len[ret.f] = 1
    /\ scen[ret.f].ph = "done3"
    /\ _cache[ret.f] = <<[k |-> ret.key, v |-> ret.val]>>

\* cNew is c without some of its items: the items that stay have their values
\* and their order.
C30_Kept(c, cNew) == cNew = Without(c, KeysIn(c) \ KeysIn(cNew))

C30_OperatorsKeep ==
    \A f \in DOMAIN _cache :
        /\ \A x \in Args :
              C30_Kept(_cache[f], invalidate(f, _cache[f], <<IntV(x)>>, <<>>).cache)
        /\ C30_Kept(_cache[f], invalidate(f, _cache[f], <<>>, <<>>).cache)
        /\ \A s \in FrameSubstrings :
              C30_Kept(_cache[f], invalidate_containing(_cache[f], s).cache)

C30_StepKeeps ==
    /\ ret'.op \in {"invalidate", "invalidate_containing", "get_key"} =>
          /\ ret'.invoked = 0
          /\ tasks' = tasks
          /\ \A f \in DOMAIN _cache : C30_Kept(_cache[f], _cache'[f])
    /\ ret'.op = "get_key" =>
          /\ _cache' = _cache
          /\ UNCHANGED <<max_len, ignore_kwargs, tasks>>

\* C30: invalidate, invalidate_containing and get_key never call the decorated
\* function, and every entry they do not remove keeps its value and its place
\* relative to the others; get_key changes nothing.
C30_InvalidationsKeepTheRest ==
    [](C30_OperatorsKeep) /\ [][C30_StepKeeps]_vars

\* invalidate_containing has removed one entry of three, and the two that stay
\* have different values.
C30_Witness ==
    /\ ret.op = "invalidate_containing" /\ ret.removed = 1
    /\ Len(_cache[ret.f]) = 2
    /\ _cache[ret.f][1].v # _cache[ret.f][2].v

\* C24: the default theme is light: `theme` without an argument, from a user
\* who has no row in user_config, reports the light theme.
C24_DefaultThemeIsLight ==
    (reply.op = "view" /\ reply.norow) => reply.theme = LIGHT

\* C25: once a `theme <name>` command has written the user's row and
\* invalidated the user's entry, every fetch_config of that user that starts
\* afterwards, with no further write under way, returns the config of that
\* write, also when a miss that read the table before the write was in flight
\* during the write and the invalidation.
C25_FetchAfterWriteIsFresh ==
    (reply.op = "view" /\ reply.after # "") => reply.theme = reply.after

\* C26: with commands taken one at a time, `theme <name>` followed by `theme`
\* from the same user reports the theme of that name, for every theme name,
\* also when the user's previous config was in the cache before the change.
C26_SetThenViewRoundTrips ==
    (reply.op = "view" /\ reply.seq) =>
        /\ reply.after \in {DARK, LIGHT}
        /\ reply.theme = reply.after

\* The user's config was cached, `theme light` has replaced it and removed the
\* entry, and the `theme` that follows reads the table and reports light.
C26_Witness ==
    /\ reply.op = "view" /\ reply.seq /\ ~reply.hit
    /\ reply.dropped
    /\ reply.theme = LIGHT

\* C31 as stated: an argument given by position or by name resolves the same
\* entry: once f(x=1) is cached, f(1) is a hit and invalidate(1) removes the
\* entry and returns True.
C31_SameEntryEitherWay ==
    \A f \in DOMAIN _cache : \A x \in NameArgs :
        LET c == _cache[f]
            kn == get_key(f, ByName(x).args, ByName(x).kwargs)
            inv == invalidate(f, c, ByPosition(x).args, ByPosition(x).kwargs)
        IN HasKey(c, kn) =>
              /\ wrapper(f, c, max_len[f], ByPosition(x).args, ByPosition(x).kwargs,
                         "a").invoked = 0
              /\ inv.val = True
              /\ ~HasKey(inv.cache, kn)

\* C31: with ignore_kwargs false, an argument given by name resolves another
\* key than the same argument given by position: f(x=1) and f(1) are cached
\* apart, each a miss of its own, and invalidate removes the entry of the form
\* it is called with and leaves the other.
C31_PositionAndNameKeepApart ==
    /\ \A f \in DOMAIN _cache : \A x \in NameArgs :
          LET c == _cache[f]
              p == ByPosition(x)
              n == ByName(x)
              kp == get_key(f, p.args, p.kwargs)
              kn == get_key(f, n.args, n.kwargs)
              rn == wrapper(f, c, max_len[f], n.args, n.kwargs, "a")
              rp == wrapper(f, rn.cache, max_len[f], p.args, p.kwargs, "b")
              invp == invalidate(f, c, p.args, p.kwargs)
              invn == invalidate(f, c, n.args, n.kwargs)
          IN /\ kp # kn
             /\ ~HasKey(c, kp) => rp.invoked = 1
             /\ (IsSync(f) /\ ~HasKey(c, kp) /\ ~HasKey(c, kn) /\ max_len[f] > 1) =>
                   /\ Lookup(rp.cache, kn) = "a"
                   /\ Lookup(rp.cache, kp) = "b"
             /\ invp.val = (IF HasKey(c, kp) THEN True ELSE False)
             /\ invp.cache = Without(c, {kp})
             /\ invn.val = (IF HasKey(c, kn) THEN True ELSE False)
             /\ invn.cache = Without(c, {kn})
    /\ ret.op \in {"call", "invalidate"} =>
          ret.key = get_key(ret.f, ret.args, ret.kwargs)

\* The entry of f(x=1) is cached, f(1) has since been a miss, and
\* invalidate(1) has removed the entry of f(1) and left that of f(x=1).
C31_Witness ==
    /\ ret.op = "invalidate" /\ ret.args = <<IntV(1)>> /\ ret.kwargs = <<>>
    /\ ret.val = True /\ ret.removed = 1
    /\ HasKey(_cache[ret.f], get_key(ret.f, ByName(1).args, ByName(1).kwargs))
    /\ ~HasKey(_cache[ret.f], get_key(ret.f, ByPosition(1).args, ByPosition(1).kwargs))

\* The fetch_config coroutines in flight are those of the commands waiting for
\* fetchrow, a completion leaves its result under its key, None included, and
\* a call of a user whose entry is None is a hit that returns an awaitable of
\* None and does not call fetch_config.
C32_NoneIsAnEntry ==
    /\ InFlight(FetchConfig) = Cardinality({i \in Slots : cmds[i].op = "view"})
    /\ (ret.op = "await" /\ ret.raised = None) =>
          /\ HasKey(_cache[ret.f], ret.key)
          /\ Lookup(_cache[ret.f], ret.key) = ret.val
    /\ \A u \in Users :
          LET c == _cache[FetchConfig]
              r == wrapper(FetchConfig, c, max_len[FetchConfig], <<Self, IntV(u)>>, <<>>, None)
          IN (HasKey(c, UserKey(u)) /\ Lookup(c, UserKey(u)) = None) =>
                /\ r.invoked = 0 /\ r.pending = <<>>
                /\ r.ret = _wrap_value(None)
                /\ KeysIn(r.cache) = KeysIn(c)
    /\ (reply.op = "view" /\ reply.hit) =>
          /\ ret.op = "call" /\ ret.had /\ ret.invoked = 0
          /\ reply.theme = theme_of(ret.val)

\* A `theme` served by a hit starts no query and changes no row, and an
\* entry leaves the cache only by an invalidation.
C32_HitAsksNothing ==
    /\ (reply' # reply /\ reply'.op = "view" /\ reply'.hit) =>
          /\ cmds' = cmds /\ tasks' = tasks /\ db' = db
          /\ KeysIn(_cache'[FetchConfig]) = KeysIn(_cache[FetchConfig])
    /\ \A u \in Users :
          (HasKey(_cache[FetchConfig], UserKey(u)) /\ ~HasKey(_cache'[FetchConfig], UserKey(u)))
              => ret'.op = "invalidate"

\* C32: a result of None is cached like any other value: once fetch_config(u)
\* has completed for a user without a row, the calls of fetch_config(u) that
\* follow are hits that return None and send no query to the database, until
\* the entry is invalidated or evicted.
C32_NoneIsCached ==
    [](C32_NoneIsAnEntry) /\ [][C32_HitAsksNothing]_vars

\* `theme` has been answered from the cached None of a user without a row.
C32_Witness ==
    /\ reply.op = "view" /\ reply.hit /\ reply.norow
    /\ ret.op = "call" /\ ret.val = None /\ ret.invoked = 0
    /\ Lookup(_cache[FetchConfig], UserKey(reply.u)) = None

\* The numbers of the records of a sequence.
Numbers(q) == {q[i].n : i \in 1..Len(q)}

\* C33: every change record a handler appends to a batch is inserted by some
\* bulk_insert before it leaves the batch, also a record appended while
\* bulk_insert is suspended in the execute of that batch.
C33_EveryRecordIsWritten ==
    \A b \in DOMAIN _batch : \A n \in 1..made[b].n :
        n \in Numbers(_batch[b]) \cup Numbers(tables[b])

\* No record is in a table twice, and none that is in a table is still in its
\* batch or in the argument of an execute under way.
C34_WrittenOnce ==
    /\ \A b \in DOMAIN _batch :
          /\ \A i, j \in 1..Len(tables[b]) : tables[b][i].n = tables[b][j].n => i = j
          /\ Numbers(_batch[b]) \cap Numbers(tables[b]) = {}
    /\ loop.pc = "bound" =>
          Numbers(loop.sent) \cap Numbers(tables[Batches[loop.at]]) = {}

\* An execute that raises changes no batch and no table; one that returns
\* inserts its argument and clears its batch.
C34_RaiseKeepsBatches ==
    /\ (loop.pc \in {"execute", "bound"} /\ loop'.pc \in {"sleep", "failed"}) =>
          /\ _batch' = _batch
          /\ tables' = tables
    /\ (loop.pc = "bound" /\ loop'.pc = "pass") =>
          /\ _batch'[Batches[loop.at]] = <<>>
          /\ tables'[Batches[loop.at]] = tables[Batches[loop.at]] \o loop.sent
          /\ \A b \in DOMAIN _batch : b # Batches[loop.at] =>
                _batch'[b] = _batch[b] /\ tables'[b] = tables[b]

\* C34: when execute raises inside bulk_insert, the batch being written and
\* the batches not yet reached keep all their records, and each batch written
\* earlier in the pass was cleared when its rows were inserted, so no record
\* is inserted a second time by a later pass.
C34_FailedPassKeepsTheRest ==
    [](C34_WrittenOnce) /\ [][C34_RaiseKeepsBatches]_vars

\* The execute of the name batch raised while the name and presence batches
\* held records, and a later pass has inserted both.
C34_Witness ==
    /\ loop.failedAt = 2 /\ loop.kept = {"name", "presence"}
    /\ loop.pc = "sleep"
    /\ Len(tables["name"]) = 1 /\ Len(tables["presence"]) = 1
    /\ \A b \in DOMAIN _batch : _batch[b] = <<>>

\* C35: no pass of bulk_insert runs before db_ready is set: until then the
\* loop waits in its before_loop, nothing is inserted, and every record the
\* handlers append stays in its batch; the records appended before db_ready
\* are in their batches when the first pass begins.
C35_NoPassBeforeReady ==
    /\ ~db_ready =>
          /\ loop.pc = "before_loop"
          /\ \A b \in DOMAIN _batch :
                /\ tables[b] = <<>>
                /\ Numbers(_batch[b]) = 1..made[b].n
                /\ made[b].early = made[b].n
    /\ (loop.pc = "pass" /\ loop.first /\ loop.at = 1) =>
          \A b \in DOMAIN _batch : 1..made[b].early \subseteq Numbers(_batch[b])
    /\ \A b \in DOMAIN _batch :
          1..made[b].early \subseteq Numbers(_batch[b]) \cup Numbers(tables[b])

\* The first pass is writing a record that was appended before db_ready.
C35_Witness ==
    /\ db_ready /\ loop.first /\ loop.pc = "bound"
    /\ \E n \in Numbers(loop.sent) : n <= made[Batches[loop.at]].early

\* C36: in every reachable state the presence batch holds no two successive
\* records of one user with the same status.
C36_NoRepeatedStatus ==
    \A u \in TrackUsers :
        LET presences == SelectSeq(_batch["presence"], LAMBDA r : r.user_id = u)
        IN \A i \in 1..Len(presences) - 1 : presences[i].v # presences[i + 1].v

\* The presence batch holds two records of one user.
C36_Witness ==
    \E u \in TrackUsers :
        Len(SelectSeq(_batch["presence"], LAMBDA r : r.user_id = u)) = 2

\* The month of an argument: the value of a number from 1 to 12, the place in
\* the calendar of an English month name or of its first three letters, and 0
\* for every other argument.
MonthOf(arg) ==
    IF isdigit(arg) /\ int_reads(arg) /\ int(arg) \in 1..12 THEN int(arg)
    ELSE IF \E m \in 1..Len(MonthNames) : arg \in {MonthNames[m], SubSeq(MonthNames[m], 1, 3)}
    THEN CHOOSE m \in 1..Len(MonthNames) : arg \in {MonthNames[m], SubSeq(MonthNames[m], 1, 3)}
    ELSE 0

\* A month number from 1 to 12 is accepted and returned.
C37_NumbersAccepted ==
    (converted.pc = "converted" /\ isdigit(converted.arg) /\ MonthOf(converted.arg) # 0) =>
        converted.out = Returned(MonthOf(converted.arg))

\* An English month name or its first three letters is accepted, and its place
\* in the calendar returned.
C37_NamesAccepted ==
    (converted.pc = "converted" /\ ~isdigit(converted.arg) /\ MonthOf(converted.arg) # 0) =>
        converted.out = Returned(MonthOf(converted.arg))

\* Every other argument is rejected with BadArgument.
C37_RestRejected ==
    (converted.pc = "converted" /\ MonthOf(converted.arg) = 0) =>
        converted.out.raised = "BadArgument"

\* C37: MonthConverter.convert accepts every month number from 1 to 12 and
\* every English month name or three-letter abbreviation, returns that month's
\* calendar number, and rejects every other argument with BadArgument.
C37_ConvertsEveryMonth ==
    /\ C37_NumbersAccepted
    /\ C37_NamesAccepted
    /\ C37_RestRejected

============================================================================
